---- MODULE Spec2Model ----
(***************************************************************************)
(* Valuation MCP server: the scoring engine of src/tools.                  *)
(*                                                                         *)
(*   package_stats.py     PackageStatsTool.get_package_stats and           *)
(*                        PackageStatsTool.calculate_adoption_score        *)
(*   valuation_models.py  ValuationCalculator, every method                *)
(*   github_analysis.py   GitHubAnalysisTool.analyze_repository            *)
(*   main.py              invoke_tool                                      *)
(*                                                                         *)
(* Python floats are modelled in fixed point.  Every quantity says its     *)
(* unit; a division is kept exact by scaling both sides with the common    *)
(* denominator of the formulas that use it.  Fractional powers are         *)
(* tabulated at the sampled inputs.                                        *)
(*                                                                         *)
(*   SpecPackage  get_package_stats, step by step, and the adoption score  *)
(*                of the record it returns                                 *)
(*   SpecUnicorn  one call of calculate_unicorn_hunter                     *)
(*   SpecInvoke   one request to invoke_tool, collaborator call by call    *)
(*   SpecGitHub   one call of analyze_repository, fetch by fetch           *)
(*   SpecValuation  one call of the cost-based, market-based, scorecard    *)
(*                or income-based method                                   *)
(*   SpecCodebase  one call of analyze_codebase, fetch by fetch            *)
(***************************************************************************)
EXTENDS Integers, Sequences, FiniteSets, TLC

VARIABLES
    pc,         \* get_package_stats: "idle", "npm", "pypi", "cargo" or "done"
    request,    \* the arguments (owner, repo, package_name) of the running call
    queried,    \* the registries queried by the running call, in order, each with its answer
    pkg_result, \* the record get_package_stats returned (None until it returns)
    prev_call,  \* the calculate_adoption_score call before the last one (None at first)
    last_call,  \* the last calculate_adoption_score call: its argument and its score
    uh_inputs,    \* calculate_unicorn_hunter: the ValuationInputs argument
    uh_analysis,  \* its codebase_analysis argument (None when not given)
    uh_result,    \* the dictionary it returned (None until it returns)
    inv_pc,       \* invoke_tool: "start", the collaborator about to be called, or "done"
    inv_request,  \* the request body
    inv_calls,    \* the collaborators called so far, in order, each with what it answered
    inv_locals,   \* the handler's local variables
    inv_response, \* the response returned or the HTTPException raised (None until then)
    gh_pc,        \* analyze_repository: the fetch about to be made, "calculate" or "done"
    gh_github,    \* what GitHub holds for the repository
    gh_fetched,   \* what the fetches returned (None before a fetch)
    gh_result,    \* the record analyze_repository returned (None until it returns)
    val_pc,       \* a valuation method: "called" or "returned"
    val_call,     \* the method called and its arguments
    val_result,   \* what the method returned (None until it returns)
    cb_pc,        \* analyze_codebase: the step it is at
    cb_call,      \* its arguments analysis_depth and include_metrics
    cb_github,    \* what GitHub holds: the repository and its root contents
    cb_fetched,   \* what the fetches of the call brought back so far
    cb_result     \* the dictionary analyze_codebase returned (None until it returns)

pkg_vars == <<pc, request, queried, pkg_result, prev_call, last_call>>

unicorn_vars == <<uh_inputs, uh_analysis, uh_result>>

invoke_vars == <<inv_pc, inv_request, inv_calls, inv_locals, inv_response>>

github_vars == <<gh_pc, gh_github, gh_fetched, gh_result>>

valuation_vars == <<val_pc, val_call, val_result>>

codebase_vars == <<cb_pc, cb_call, cb_github, cb_fetched, cb_result>>

vars == <<pkg_vars, unicorn_vars, invoke_vars, github_vars, valuation_vars, codebase_vars>>

\* What the steps of one function leave alone: the other functions' variables.
outside_pkg       == <<unicorn_vars, invoke_vars, github_vars, valuation_vars, codebase_vars>>
outside_unicorn   == <<pkg_vars, invoke_vars, github_vars, valuation_vars, codebase_vars>>
outside_invoke    == <<pkg_vars, unicorn_vars, github_vars, valuation_vars, codebase_vars>>
outside_github    == <<pkg_vars, unicorn_vars, invoke_vars, valuation_vars, codebase_vars>>
outside_valuation == <<pkg_vars, unicorn_vars, invoke_vars, github_vars, codebase_vars>>
outside_codebase  == <<pkg_vars, unicorn_vars, invoke_vars, github_vars, valuation_vars>>

\* Python's None where a dictionary is expected, None where a string is
\* expected, and the empty dictionary {}.
None      == [py_none |-> TRUE]
NoneStr   == "None"
EmptyDict == [py_empty |-> TRUE]

\* An exception raised by a call, in the place of what the call returns.
Raised == [raised |-> "Exception"]

\* dict.get(key, default)
Get(d, key, default) == IF key \in DOMAIN d THEN d[key] ELSE default

Min(a, b) == IF a <= b THEN a ELSE b
Max(a, b) == IF a >= b THEN a ELSE b

\* No call of the function is in progress and none was made.
PackageIdle ==
    /\ pc = "idle"
    /\ request = None
    /\ queried = <<>>
    /\ pkg_result = None
    /\ prev_call = None
    /\ last_call = None

UnicornIdle ==
    /\ uh_inputs = None
    /\ uh_analysis = None
    /\ uh_result = None

InvokeIdle ==
    /\ inv_pc = "idle"
    /\ inv_request = None
    /\ inv_calls = <<>>
    /\ inv_locals = None
    /\ inv_response = None

GitHubIdle ==
    /\ gh_pc = "idle"
    /\ gh_github = None
    /\ gh_fetched = None
    /\ gh_result = None

ValuationIdle ==
    /\ val_pc = "idle"
    /\ val_call = None
    /\ val_result = None

CodebaseIdle ==
    /\ cb_pc = "idle"
    /\ cb_call = None
    /\ cb_github = None
    /\ cb_fetched = None
    /\ cb_result = None

(***************************************************************************)
(* package_stats.py                                                        *)
(***************************************************************************)

\* The download counts the registries answer with.
WeeklySamples  == {0, 99, 100, 999, 1000, 9999, 10000, 99999, 100000}
MonthlySamples == {0, 499, 500, 4999, 5000, 49999, 50000, 499999, 500000}
TotalSamples   == {0, 9999, 10000, 100000, 1000000}
RecentSamples  == {0, 5000, 50000}

Owners       == {"mcpmessenger"}
Repos        == {"slashmcp"}
PackageNames == {NoneStr, "slash-mcp"}

\* package = package_name or repo_name
PackageOf(repo_name, package_name) ==
    IF package_name = NoneStr THEN repo_name ELSE package_name

\* What _get_npm_stats can return: None (404, another status, an exception)
\* or the stats dictionary with the week's downloads.
NpmAnswers(repo_name, package_name) ==
    {None} \cup
    { [package_name     |-> PackageOf(repo_name, package_name),
       weekly_downloads |-> w,
       registry         |-> "npm"] : w \in WeeklySamples }

PypiAnswers(repo_name, package_name) ==
    {None} \cup
    { [package_name      |-> PackageOf(repo_name, package_name),
       monthly_downloads |-> m,
       registry          |-> "pypi"] : m \in MonthlySamples }

CargoAnswers(repo_name, package_name) ==
    {None} \cup
    { [package_name     |-> PackageOf(repo_name, package_name),
       total_downloads  |-> t,
       recent_downloads |-> r,
       registry         |-> "cargo"] : t \in TotalSamples, r \in RecentSamples }

\* The result dictionary get_package_stats starts from.
NotFound(owner, repo) ==
    [repository      |-> <<owner, repo>>,
     package_manager |-> NoneStr,
     package_name    |-> NoneStr,
     stats           |-> EmptyDict,
     status          |-> "not_found"]

\* The result dictionary once a registry answered.
Found(owner, repo, manager, answer) ==
    [repository      |-> <<owner, repo>>,
     package_manager |-> manager,
     package_name    |-> answer.package_name,
     stats           |-> answer,
     status          |-> "success"]

\* Adoption scores are kept in units of 1/ScoreUnit point: 36000 is the
\* common denominator of the slopes 1/10, 1/60, 1/360, 1/200 (npm), 1/50,
\* 1/300, 1/1800, 1/1000 (pypi) and 1/400, 1/3600, 1/18000, 1/1000 (cargo).
ScoreUnit == 36000

Points(p) == p * ScoreUnit

NpmScore(weekly_downloads) ==
    IF weekly_downloads >= 100000 THEN Points(100)
    ELSE IF weekly_downloads >= 10000
        THEN Points(50) + weekly_downloads * (ScoreUnit \div 200)
    ELSE IF weekly_downloads >= 1000
        THEN Points(25) + (weekly_downloads - 1000) * (ScoreUnit \div 360)
    ELSE IF weekly_downloads >= 100
        THEN Points(10) + (weekly_downloads - 100) * (ScoreUnit \div 60)
    ELSE Min(Points(10), weekly_downloads * (ScoreUnit \div 10))

PypiScore(monthly_downloads) ==
    IF monthly_downloads >= 500000 THEN Points(100)
    ELSE IF monthly_downloads >= 50000
        THEN Points(50) + monthly_downloads * (ScoreUnit \div 1000)
    ELSE IF monthly_downloads >= 5000
        THEN Points(25) + (monthly_downloads - 5000) * (ScoreUnit \div 1800)
    ELSE IF monthly_downloads >= 500
        THEN Points(10) + (monthly_downloads - 500) * (ScoreUnit \div 300)
    ELSE Min(Points(10), monthly_downloads * (ScoreUnit \div 50))

CargoBaseScore(total_downloads) ==
    IF total_downloads >= 1000000 THEN Points(100)
    ELSE IF total_downloads >= 100000
        THEN Points(50) + (total_downloads - 100000) * (ScoreUnit \div 18000)
    ELSE IF total_downloads >= 10000
        THEN Points(25) + (total_downloads - 10000) * (ScoreUnit \div 3600)
    ELSE Min(Points(25), total_downloads * (ScoreUnit \div 400))

CargoScore(total_downloads, recent_downloads) ==
    LET base_score   == CargoBaseScore(total_downloads)
        recent_boost == Min(Points(20), recent_downloads * (ScoreUnit \div 1000))
    IN  Min(Points(100), base_score + recent_boost)

calculate_adoption_score(stats) ==
    IF stats = None \/ Get(stats, "status", NoneStr) # "success" THEN 0
    ELSE LET package_manager == Get(stats, "package_manager", NoneStr)
             package_stats   == Get(stats, "stats", EmptyDict)
         IN  IF package_manager = "npm"
                 THEN NpmScore(Get(package_stats, "weekly_downloads", 0))
             ELSE IF package_manager = "pypi"
                 THEN PypiScore(Get(package_stats, "monthly_downloads", 0))
             ELSE IF package_manager = "cargo"
                 THEN CargoScore(Get(package_stats, "total_downloads", 0),
                                 Get(package_stats, "recent_downloads", 0))
             ELSE 0

\* get_package_stats is entered: the result starts as "not_found".
GetPackageStats ==
    /\ pc = "idle"
    /\ \E owner \in Owners, repo \in Repos, package_name \in PackageNames :
          request' = [owner |-> owner, repo |-> repo, package_name |-> package_name]
    /\ pc' = "npm"
    /\ queried' = <<>>
    /\ pkg_result' = None
    /\ UNCHANGED <<prev_call, last_call>>
    /\ UNCHANGED outside_pkg

\* TryRegistry without the return after a registry answered.
TryRegistryNoReturn(manager, answers, next) ==
    /\ pc = manager
    /\ \E answer \in answers :
          /\ queried' = Append(queried, [registry |-> manager, answer |-> answer])
          /\ pkg_result' = IF answer # None
                               THEN Found(request.owner, request.repo, manager, answer)
                           ELSE IF next = "done" /\ pkg_result = None
                               THEN NotFound(request.owner, request.repo)
                           ELSE pkg_result
          /\ pc' = next
    /\ UNCHANGED <<request, prev_call, last_call>>
    /\ UNCHANGED outside_pkg

\* One registry is queried; a non-empty answer ends the call, an empty one
\* passes on to `next` (or returns the "not_found" result after the last).
TryRegistry(manager, answers, next) ==
    /\ pc = manager
    /\ \E answer \in answers :
          /\ queried' = Append(queried, [registry |-> manager, answer |-> answer])
          /\ IF answer # None
                 THEN /\ pkg_result' = Found(request.owner, request.repo, manager, answer)
                      /\ pc' = "done"
                 ELSE IF next = "done"
                     THEN /\ pkg_result' = NotFound(request.owner, request.repo)
                          /\ pc' = "done"
                     ELSE /\ pkg_result' = pkg_result
                          /\ pc' = next
    /\ UNCHANGED <<request, prev_call, last_call>>
    /\ UNCHANGED outside_pkg

TryNpm   == TryRegistry("npm", NpmAnswers(request.repo, request.package_name), "pypi")
TryPypi  == TryRegistry("pypi", PypiAnswers(request.repo, request.package_name), "cargo")
TryCargo == TryRegistry("cargo", CargoAnswers(request.repo, request.package_name), "done")

\* The caller scores the record get_package_stats returned.
CalculateAdoptionScore ==
    /\ pc = "done"
    /\ prev_call' = last_call
    /\ last_call' = [stats |-> pkg_result, score |-> calculate_adoption_score(pkg_result)]
    /\ pc' = "idle"
    /\ UNCHANGED <<request, queried, pkg_result>>
    /\ UNCHANGED outside_pkg

\* No package lookup has been made, and no call of calculate_unicorn_hunter is.
InitPackage ==
    /\ pc = "idle"
    /\ request = None
    /\ queried = <<>>
    /\ pkg_result = None
    /\ prev_call = None
    /\ last_call = None
    /\ UnicornIdle
    /\ InvokeIdle
    /\ GitHubIdle
    /\ ValuationIdle
    /\ CodebaseIdle

NextPackage ==
    \/ GetPackageStats
    \/ TryNpm
    \/ TryPypi
    \/ TryCargo
    \/ CalculateAdoptionScore

(***************************************************************************)
(* valuation_models.py: calculate_unicorn_hunter                           *)
(***************************************************************************)

\* The raw counts of the repository records the function is called with.
StarSamples         == {0, 250, 1000000000}
ForkSamples         == {0, 50, 1000000000}
WatcherSamples      == {0, 30, 1000000000}
\* contributors, total_commits, commit_frequency (in tenths of a commit per week)
DevelopmentSamples  ==
    { [contributors |-> 0,       total_commits |-> 0,          commit_frequency |-> 0],
      [contributors |-> 15,      total_commits |-> 500,        commit_frequency |-> 85],
      [contributors |-> 1000000, total_commits |-> 1000000000, commit_frequency |-> 1000] }

\* The repository scores (health, activity, overall) are reals in [0,1]: they
\* are the fractions i / ScoreDen for even i, and .get's default 0.5 is
\* ScoreSteps / ScoreDen.
ScoreSteps == 2
ScoreDen   == 2 * ScoreSteps
ScoreSamples == { 2 * i : i \in 0..ScoreSteps }

RepoScoreSamples ==
    {EmptyDict} \cup
    [overall_score : ScoreSamples, health_score : ScoreSamples, activity_score : ScoreSamples]

RepoDataSamples ==
    [metrics     : [stars : StarSamples, forks : ForkSamples, watchers : WatcherSamples],
     scores      : RepoScoreSamples,
     development : DevelopmentSamples]

\* The codebase-analysis records: percentages in [0,100], 0-10 scores in
\* [0,10], vulnerability counts >= 0.
ArchitectureSamples ==
    { [modularity_score |-> 0,  coupling_score |-> 10, cohesion_score |-> 0],
      [modularity_score |-> 10, coupling_score |-> 0,  cohesion_score |-> 10] }

DependencySamples ==
    { [security_vulnerabilities |-> 0,  critical_vulnerabilities |-> 0, outdated_percentage |-> 0],
      [security_vulnerabilities |-> 30, critical_vulnerabilities |-> 5, outdated_percentage |-> 100] }

FullAnalyses(status) ==
    [status         : {status},
     quality_scores : [maintainability_index : {0, 100}],
     test_coverage  : [overall_coverage : {0, 100}],
     documentation  : [readme_quality_score : {0, 10}],
     architecture   : ArchitectureSamples,
     dependencies   : DependencySamples]

BestAnalysis(status) ==
    [status         |-> status,
     quality_scores |-> [maintainability_index |-> 100],
     test_coverage  |-> [overall_coverage |-> 100],
     documentation  |-> [readme_quality_score |-> 10],
     architecture   |-> [modularity_score |-> 10, coupling_score |-> 0, cohesion_score |-> 10],
     dependencies   |-> [security_vulnerabilities |-> 0, critical_vulnerabilities |-> 0,
                         outdated_percentage |-> 0]]

\* No record; the estimator's failure records; a record of another status
\* that carries every section; a successful record with no section (every
\* .get falls back to its default); the successful records.
AnalysisSamples ==
    {None,
     [status |-> "failed", error |-> "Repository not found"],
     BestAnalysis("failed"),
     [status |-> "success"]}
    \cup FullAnalyses("success")

\* x ** e is Python's float power.  Pow(x, s, e10) is (x / s) ** (e10 / 10)
\* in units of 1 / PowUnit, rounded to the nearest unit, tabulated at the
\* sampled counts.
PowUnit == 100000

PowTable ==
       (<<0, 1000, 3>> :> 0)
    @@ (<<250, 1000, 3>> :> 65975)
    @@ (<<1000000000, 1000, 3>> :> 6309573)
    @@ (<<0, 5000, 4>> :> 0)
    @@ (<<250, 5000, 4>> :> 30171)
    @@ (<<1000000000, 5000, 4>> :> 13195079)
    @@ (<<0, 500, 3>> :> 0)
    @@ (<<50, 500, 3>> :> 50119)
    @@ (<<1000000000, 500, 3>> :> 7767996)
    @@ (<<0, 1000, 4>> :> 0)
    @@ (<<50, 1000, 4>> :> 30171)
    @@ (<<1000000000, 1000, 4>> :> 25118864)
    @@ (<<0, 2000, 3>> :> 0)
    @@ (<<50, 2000, 3>> :> 33066)
    @@ (<<1000000000, 2000, 3>> :> 5124966)
    @@ (<<0, 200, 3>> :> 0)
    @@ (<<30, 200, 3>> :> 56601)
    @@ (<<1000000000, 200, 3>> :> 10225652)
    @@ (<<30, 500, 3>> :> 42998)
    @@ (<<0, 50, 4>> :> 0)
    @@ (<<15, 50, 4>> :> 61780)
    @@ (<<1000000, 50, 4>> :> 5253056)
    @@ (<<0, 100, 3>> :> 0)
    @@ (<<15, 100, 3>> :> 56601)
    @@ (<<1000000, 100, 3>> :> 1584893)
    @@ (<<500, 1000, 3>> :> 81225)
    @@ (<<0, 100, 5>> :> 0)
    @@ (<<85, 100, 5>> :> 92195)
    @@ (<<1000, 100, 5>> :> 316228)
    @@ (<<1, 1000, 3>> :> 12589)
    @@ (<<2, 1000, 3>> :> 15499)
    @@ (<<3, 1000, 3>> :> 17504)
    @@ (<<4, 1000, 3>> :> 19082)
    @@ (<<5, 1000, 3>> :> 20403)
    @@ (<<6, 1000, 3>> :> 21550)
    @@ (<<7, 1000, 3>> :> 22570)
    @@ (<<8, 1000, 3>> :> 23492)
    @@ (<<9, 1000, 3>> :> 24337)
    @@ (<<10, 1000, 3>> :> 25119)
    @@ (<<20, 1000, 3>> :> 30925)
    @@ (<<30, 1000, 3>> :> 34925)
    @@ (<<40, 1000, 3>> :> 38073)
    @@ (<<50, 1000, 3>> :> 40709)
    @@ (<<60, 1000, 3>> :> 42998)
    @@ (<<70, 1000, 3>> :> 45033)
    @@ (<<80, 1000, 3>> :> 46873)
    @@ (<<90, 1000, 3>> :> 48559)
    @@ (<<100, 1000, 3>> :> 50119)
    @@ (<<200, 1000, 3>> :> 61703)
    @@ (<<300, 1000, 3>> :> 69685)
    @@ (<<400, 1000, 3>> :> 75966)
    @@ (<<500, 1000, 3>> :> 81225)
    @@ (<<600, 1000, 3>> :> 85792)
    @@ (<<700, 1000, 3>> :> 89852)
    @@ (<<800, 1000, 3>> :> 93525)
    @@ (<<900, 1000, 3>> :> 96889)
    @@ (<<1000, 1000, 3>> :> 100000)
    @@ (<<2000, 1000, 3>> :> 123114)
    @@ (<<3000, 1000, 3>> :> 139039)
    @@ (<<4000, 1000, 3>> :> 151572)
    @@ (<<5000, 1000, 3>> :> 162066)
    @@ (<<6000, 1000, 3>> :> 171177)
    @@ (<<7000, 1000, 3>> :> 179279)
    @@ (<<8000, 1000, 3>> :> 186607)
    @@ (<<9000, 1000, 3>> :> 193318)
    @@ (<<10000, 1000, 3>> :> 199526)
    @@ (<<20000, 1000, 3>> :> 245646)
    @@ (<<30000, 1000, 3>> :> 277419)
    @@ (<<40000, 1000, 3>> :> 302425)
    @@ (<<50000, 1000, 3>> :> 323364)
    @@ (<<60000, 1000, 3>> :> 341543)
    @@ (<<70000, 1000, 3>> :> 357709)
    @@ (<<80000, 1000, 3>> :> 372329)
    @@ (<<90000, 1000, 3>> :> 385721)
    @@ (<<100000, 1000, 3>> :> 398107)
    @@ (<<101593, 1000, 3>> :> 399999)
    @@ (<<101594, 1000, 3>> :> 400000)
    @@ (<<101595, 1000, 3>> :> 400002)
    @@ (<<150000, 1000, 3>> :> 449601)
    @@ (<<200000, 1000, 3>> :> 490127)
    @@ (<<300000, 1000, 3>> :> 553524)
    @@ (<<500000, 1000, 3>> :> 645195)
    @@ (<<1000000, 1000, 3>> :> 794328)
    @@ (<<10000000, 1000, 3>> :> 1584893)
    @@ (<<100000000, 1000, 3>> :> 3162278)
    @@ (<<1, 5000, 4>> :> 3314)
    @@ (<<2, 5000, 4>> :> 4373)
    @@ (<<3, 5000, 4>> :> 5144)
    @@ (<<4, 5000, 4>> :> 5771)
    @@ (<<5, 5000, 4>> :> 6310)
    @@ (<<6, 5000, 4>> :> 6787)
    @@ (<<7, 5000, 4>> :> 7219)
    @@ (<<8, 5000, 4>> :> 7615)
    @@ (<<9, 5000, 4>> :> 7982)
    @@ (<<10, 5000, 4>> :> 8326)
    @@ (<<20, 5000, 4>> :> 10986)
    @@ (<<30, 5000, 4>> :> 12920)
    @@ (<<40, 5000, 4>> :> 14496)
    @@ (<<50, 5000, 4>> :> 15849)
    @@ (<<60, 5000, 4>> :> 17048)
    @@ (<<70, 5000, 4>> :> 18132)
    @@ (<<80, 5000, 4>> :> 19127)
    @@ (<<90, 5000, 4>> :> 20050)
    @@ (<<100, 5000, 4>> :> 20913)
    @@ (<<200, 5000, 4>> :> 27595)
    @@ (<<300, 5000, 4>> :> 32453)
    @@ (<<400, 5000, 4>> :> 36411)
    @@ (<<500, 5000, 4>> :> 39811)
    @@ (<<600, 5000, 4>> :> 42823)
    @@ (<<700, 5000, 4>> :> 45546)
    @@ (<<800, 5000, 4>> :> 48045)
    @@ (<<900, 5000, 4>> :> 50363)
    @@ (<<1000, 5000, 4>> :> 52531)
    @@ (<<2000, 5000, 4>> :> 69314)
    @@ (<<3000, 5000, 4>> :> 81519)
    @@ (<<4000, 5000, 4>> :> 91461)
    @@ (<<5000, 5000, 4>> :> 100000)
    @@ (<<6000, 5000, 4>> :> 107565)
    @@ (<<7000, 5000, 4>> :> 114407)
    @@ (<<8000, 5000, 4>> :> 120684)
    @@ (<<9000, 5000, 4>> :> 126505)
    @@ (<<10000, 5000, 4>> :> 131951)
    @@ (<<20000, 5000, 4>> :> 174110)
    @@ (<<30000, 5000, 4>> :> 204767)
    @@ (<<40000, 5000, 4>> :> 229740)
    @@ (<<50000, 5000, 4>> :> 251189)
    @@ (<<60000, 5000, 4>> :> 270192)
    @@ (<<70000, 5000, 4>> :> 287376)
    @@ (<<80000, 5000, 4>> :> 303143)
    @@ (<<90000, 5000, 4>> :> 317767)
    @@ (<<100000, 5000, 4>> :> 331445)
    @@ (<<101593, 5000, 4>> :> 333547)
    @@ (<<101594, 5000, 4>> :> 333549)
    @@ (<<101595, 5000, 4>> :> 333550)
    @@ (<<150000, 5000, 4>> :> 389806)
    @@ (<<200000, 5000, 4>> :> 437345)
    @@ (<<300000, 5000, 4>> :> 514352)
    @@ (<<500000, 5000, 4>> :> 630957)
    @@ (<<1000000, 5000, 4>> :> 832553)
    @@ (<<10000000, 5000, 4>> :> 2091279)
    @@ (<<100000000, 5000, 4>> :> 5253056)

Pow(x, s, e10) == PowTable[<<x, s, e10>>]

\* min(100, max(0, w * (1 + (x / s) ** e))), in units of 1 / PowUnit point.
Normalized(w, x, s, e10) ==
    Min(100 * PowUnit, Max(0, w * (PowUnit + Pow(x, s, e10))))

\* round(value, 1) of the float value n / d, in tenths (n >= 0, d > 0).  A
\* float that should be a decimal tie (x.x5) lies a rounding error above or
\* below it, so round() gives either neighbour: both are outcomes.
RoundTenths(n, d) ==
    LET q == n \div d
        r == n % d
    IN  IF 2 * r < d THEN {q}
        ELSE IF 2 * r > d THEN {q + 1}
        ELSE {q, q + 1}

\* star_score without min(100, ...) and max(0, ...).
StarScoreUnclamped(stars) == 20 * (PowUnit + Pow(stars, 1000, 3))

\* star_score = min(100, max(0, 20 * (1 + (stars / 1000) ** 0.3)))
StarScore(stars) == Normalized(20, stars, 1000, 3)

\* has_codebase_analysis without the status test.
HasAnyCodebaseAnalysis(codebase_analysis) == codebase_analysis # None

\* has_codebase_analysis
HasCodebaseAnalysis(codebase_analysis) ==
    /\ codebase_analysis # None
    /\ Get(codebase_analysis, "status", NoneStr) = "success"

\* 1. Community Momentum, in tenths of a point.
CommunityMomentum(repo_metrics) ==
    LET stars         == Get(repo_metrics, "stars", 0)
        forks         == Get(repo_metrics, "forks", 0)
        watchers      == Get(repo_metrics, "watchers", 0)
        star_score    == StarScore(stars)
        fork_score    == Normalized(15, forks, 500, 3)
        watcher_score == Normalized(10, watchers, 200, 3)
    IN  \* (star * 0.5 + fork * 0.3 + watcher * 0.2), times 10 * PowUnit
        RoundTenths(star_score * 5 + fork_score * 3 + watcher_score * 2, PowUnit)

\* 2. Development Velocity, in tenths of a point.
DevelopmentVelocity(dev_info) ==
    LET contributors      == Get(dev_info, "contributors", 0)
        total_commits     == Get(dev_info, "total_commits", 0)
        commit_frequency  == Get(dev_info, "commit_frequency", 0)
        contributor_score == Normalized(30, contributors, 50, 4)
        commit_score      == Normalized(40, total_commits, 1000, 3)
        \* commit_frequency is in tenths: (f / 10) ** 0.5 = (10 f / 100) ** 0.5
        frequency_score   == Normalized(30, commit_frequency, 100, 5)
    IN  RoundTenths(contributor_score * 3 + commit_score * 4 + frequency_score * 3, PowUnit)

\* base_tech_quality = (overall * 0.4 + health * 0.3 + activity * 0.3) * 100,
\* times ScoreDen.
BaseTechQuality(repo_scores) ==
    LET overall_score  == Get(repo_scores, "overall_score", ScoreSteps)
        health_score   == Get(repo_scores, "health_score", ScoreSteps)
        activity_score == Get(repo_scores, "activity_score", ScoreSteps)
    IN  overall_score * 40 + health_score * 30 + activity_score * 30

\* 3. Technology Quality, in tenths of a point.
TechnologyQuality(repo_scores, codebase_analysis) ==
    LET base_tech_quality == BaseTechQuality(repo_scores)
    IN  IF HasCodebaseAnalysis(codebase_analysis)
        THEN LET quality_scores  == Get(codebase_analysis, "quality_scores", EmptyDict)
                 architecture    == Get(codebase_analysis, "architecture", EmptyDict)
                 dependencies    == Get(codebase_analysis, "dependencies", EmptyDict)
                 maintainability == Get(quality_scores, "maintainability_index", 50)
                 \* code_quality_score = maintainability * 0.4
                 modularity      == Get(architecture, "modularity_score", 5) * 10
                 coupling        == Get(architecture, "coupling_score", 5)
                 cohesion        == Get(architecture, "cohesion_score", 5) * 10
                 \* arch_score = (arch10 / 10) * 0.3
                 arch10          == modularity * 4 + (10 - coupling) * 10 * 3 + cohesion * 3
                 vulns           == Get(dependencies, "security_vulnerabilities", 0)
                 outdated_pct    == Get(dependencies, "outdated_percentage", 0)
                 \* dep_score = (dep2 / 2) * 0.3
                 dep2            == Max(0, 200 - vulns * 10 - outdated_pct)
             IN  \* base * 0.3 + maintainability * 0.4 + arch_score + dep_score,
                 \* times 200 * ScoreDen
                 RoundTenths(base_tech_quality * 60
                               + ScoreDen * (maintainability * 80 + arch10 * 6 + dep2 * 30),
                             20 * ScoreDen)
        ELSE RoundTenths(base_tech_quality * 10, ScoreDen)

\* Market Potential without the constant 1 of each term.
MarketPotentialNoFloor(repo_metrics, dev_info) ==
    LET stars        == Get(repo_metrics, "stars", 0)
        forks        == Get(repo_metrics, "forks", 0)
        contributors == Get(dev_info, "contributors", 0)
    IN  RoundTenths(Min(100 * PowUnit,
                        Max(0, 25 * Pow(stars, 5000, 4)
                               + 20 * Pow(forks, 1000, 4)
                               + 15 * Pow(contributors, 100, 3))),
                    PowUnit \div 10)

\* 4. Market Potential, in tenths of a point.
MarketPotential(repo_metrics, dev_info) ==
    LET stars        == Get(repo_metrics, "stars", 0)
        forks        == Get(repo_metrics, "forks", 0)
        contributors == Get(dev_info, "contributors", 0)
    IN  RoundTenths(Min(100 * PowUnit,
                        Max(0, 25 * (PowUnit + Pow(stars, 5000, 4))
                               + 20 * (PowUnit + Pow(forks, 1000, 4))
                               + 15 * (PowUnit + Pow(contributors, 100, 3)))),
                    PowUnit \div 10)

\* Network Effects with terms of 25 in place of 50.
NetworkEffectsHalfTerms(repo_metrics) ==
    LET forks    == Get(repo_metrics, "forks", 0)
        watchers == Get(repo_metrics, "watchers", 0)
    IN  RoundTenths(Min(100 * PowUnit,
                        Max(0, 25 * (PowUnit + Pow(forks, 2000, 3))
                               + 25 * (PowUnit + Pow(watchers, 500, 3)))),
                    PowUnit \div 10)

\* 5. Network Effects, in tenths of a point.
NetworkEffects(repo_metrics) ==
    LET forks    == Get(repo_metrics, "forks", 0)
        watchers == Get(repo_metrics, "watchers", 0)
    IN  RoundTenths(Min(100 * PowUnit,
                        Max(0, 50 * (PowUnit + Pow(forks, 2000, 3))
                               + 50 * (PowUnit + Pow(watchers, 500, 3)))),
                    PowUnit \div 10)

\* Code Quality Score, in tenths of a point: 0 without a codebase analysis.
CodeQuality(codebase_analysis) ==
    IF HasCodebaseAnalysis(codebase_analysis)
    THEN LET quality_scores  == Get(codebase_analysis, "quality_scores", EmptyDict)
             test_coverage   == Get(codebase_analysis, "test_coverage", EmptyDict)
             documentation   == Get(codebase_analysis, "documentation", EmptyDict)
             maintainability == Get(quality_scores, "maintainability_index", 50)
             test_cov        == Get(test_coverage, "overall_coverage", 0)
             doc_quality     == Get(documentation, "readme_quality_score", 0) * 10
         IN  \* (maintainability * 0.4 + test_cov * 0.35 + doc_quality * 0.25), times 100
             RoundTenths(maintainability * 40 + test_cov * 35 + doc_quality * 25, 10)
    ELSE {0}

\* Security Posture, in tenths of a point: 0 without a codebase analysis.
SecurityPosture(codebase_analysis) ==
    IF HasCodebaseAnalysis(codebase_analysis)
    THEN LET dependencies   == Get(codebase_analysis, "dependencies", EmptyDict)
             vulns          == Get(dependencies, "security_vulnerabilities", 0)
             critical_vulns == Get(dependencies, "critical_vulnerabilities", 0)
         IN  {10 * Max(0, 100 - critical_vulns * 20 - vulns * 5)}
    ELSE {0}

\* maintainability and test_reliability entries of the score mapping, in tenths.
Maintainability(codebase_analysis) ==
    IF HasCodebaseAnalysis(codebase_analysis)
    THEN 10 * Get(Get(codebase_analysis, "quality_scores", EmptyDict), "maintainability_index", 50)
    ELSE 0

TestReliability(codebase_analysis) ==
    IF HasCodebaseAnalysis(codebase_analysis)
    THEN 10 * Get(Get(codebase_analysis, "test_coverage", EmptyDict), "overall_coverage", 0)
    ELSE 0

\* ComponentScores with network_effects computed only in the branch taken
\* without a codebase analysis (0 with one).
ComponentScoresNetworkInElse(repo_data, codebase_analysis) ==
    LET repo_metrics == Get(repo_data, "metrics", EmptyDict)
        repo_scores  == Get(repo_data, "scores", EmptyDict)
        dev_info     == Get(repo_data, "development", EmptyDict)
    IN  { [community_momentum   |-> cm,
           development_velocity |-> dv,
           technology_quality   |-> tq,
           market_potential     |-> mp,
           network_effects      |-> ne,
           code_quality         |-> cq,
           maintainability      |-> Maintainability(codebase_analysis),
           test_reliability     |-> TestReliability(codebase_analysis),
           security_posture     |-> sp] :
          cm \in CommunityMomentum(repo_metrics),
          dv \in DevelopmentVelocity(dev_info),
          tq \in TechnologyQuality(repo_scores, codebase_analysis),
          mp \in MarketPotential(repo_metrics, dev_info),
          ne \in IF HasCodebaseAnalysis(codebase_analysis)
                     THEN {0} ELSE NetworkEffects(repo_metrics),
          cq \in CodeQuality(codebase_analysis),
          sp \in SecurityPosture(codebase_analysis) }

\* The score mappings (`scores`) the function can compute, in tenths of a point.
ComponentScores(repo_data, codebase_analysis) ==
    LET repo_metrics == Get(repo_data, "metrics", EmptyDict)
        repo_scores  == Get(repo_data, "scores", EmptyDict)
        dev_info     == Get(repo_data, "development", EmptyDict)
    IN  { [community_momentum   |-> cm,
           development_velocity |-> dv,
           technology_quality   |-> tq,
           market_potential     |-> mp,
           network_effects      |-> ne,
           code_quality         |-> cq,
           maintainability      |-> Maintainability(codebase_analysis),
           test_reliability     |-> TestReliability(codebase_analysis),
           security_posture     |-> sp] :
          cm \in CommunityMomentum(repo_metrics),
          dv \in DevelopmentVelocity(dev_info),
          tq \in TechnologyQuality(repo_scores, codebase_analysis),
          mp \in MarketPotential(repo_metrics, dev_info),
          ne \in NetworkEffects(repo_metrics),
          cq \in CodeQuality(codebase_analysis),
          sp \in SecurityPosture(codebase_analysis) }

\* EnrichedWeights whose last weight is on a key the score mapping does not
\* have.
EnrichedWeightsUnscoredKey ==
    [community_momentum   |-> 25,
     development_velocity |-> 15,
     technology_quality   |-> 20,
     market_potential     |-> 15,
     network_effects      |-> 10,
     code_quality         |-> 10,
     growth_potential     |-> 5]

\* The two weight tables, in hundredths.
EnrichedWeights ==
    [community_momentum   |-> 25,
     development_velocity |-> 15,
     technology_quality   |-> 20,
     market_potential     |-> 15,
     network_effects      |-> 10,
     code_quality         |-> 10,
     security_posture     |-> 5]

BaselineWeights ==
    [community_momentum   |-> 25,
     development_velocity |-> 20,
     technology_quality   |-> 20,
     market_potential     |-> 20,
     network_effects      |-> 15]

\* Weights that keeps the seven-dimension table in both branches.
WeightsAlwaysEnriched(codebase_analysis) == EnrichedWeights

Weights(codebase_analysis) ==
    IF HasCodebaseAnalysis(codebase_analysis) THEN EnrichedWeights ELSE BaselineWeights

RECURSIVE SumOver(_, _, _)
SumOver(keys, scores, weights) ==
    IF keys = {} THEN 0
    ELSE LET key == CHOOSE k \in keys : TRUE
         IN  scores[key] * weights[key] + SumOver(keys \ {key}, scores, weights)

\* sum(scores[key] * weights[key] for key in weights.keys() if key in scores),
\* in thousandths of a point.
WeightedSum(scores, weights) ==
    SumOver({key \in DOMAIN weights : key \in DOMAIN scores}, scores, weights)

\* unicorn_score = round(sum, 1), in tenths of a point.
UnicornScore(scores, weights) == RoundTenths(WeightedSum(scores, weights), 100)

max_valuation == 1000000000

\* (unicorn_score / 100) ** 2.2 * 5_000_000, ** 2.5 * 10_000_000 and
\* ** 2.8 * 20_000_000 as Python's float power gives them, rounded to cents,
\* in whole dollars (the cents are dropped); entry u + 1 is the value at a
\* unicorn_score of u tenths, for u from 0 to 1100.

ConservativeCurve ==
    <<
    0, 1, 5, 14, 26, 43, 64, 90, 121, 157,
    199, 245, 297, 354, 417, 485, 559, 639, 725, 817,
    914, 1018, 1127, 1243, 1365, 1494, 1628, 1769, 1917, 2071,
    2231, 2398, 2572, 2752, 2939, 3132, 3333, 3540, 3754, 3974,
    4202, 4437, 4678, 4927, 5182, 5445, 5715, 5992, 6276, 6567,
    6866, 7171, 7484, 7805, 8132, 8467, 8810, 9159, 9517, 9881,
    10254, 10633, 11021, 11416, 11818, 12228, 12646, 13071, 13504, 13945,
    14394, 14850, 15314, 15786, 16265, 16753, 17248, 17752, 18263, 18782,
    19309, 19844, 20387, 20938, 21497, 22064, 22639, 23222, 23813, 24413,
    25020, 25636, 26260, 26892, 27532, 28181, 28838, 29503, 30176, 30857,
    31547, 32246, 32952, 33667, 34390, 35122, 35862, 36611, 37368, 38133,
    38907, 39689, 40480, 41280, 42088, 42904, 43729, 44563, 45405, 46256,
    47116, 47984, 48860, 49746, 50640, 51543, 52454, 53375, 54304, 55241,
    56188, 57143, 58107, 59080, 60062, 61052, 62051, 63060, 64077, 65103,
    66138, 67181, 68234, 69296, 70366, 71446, 72534, 73632, 74738, 75854,
    76978, 78112, 79254, 80406, 81567, 82736, 83915, 85103, 86300, 87507,
    88722, 89947, 91180, 92423, 93675, 94936, 96207, 97486, 98775, 100073,
    101381, 102697, 104023, 105358, 106703, 108057, 109420, 110792, 112174, 113565,
    114966, 116375, 117795, 119223, 120661, 122109, 123565, 125032, 126507, 127992,
    129487, 130991, 132505, 134028, 135560, 137102, 138654, 140215, 141786, 143366,
    144955, 146555, 148164, 149782, 151410, 153048, 154695, 156352, 158019, 159695,
    161381, 163076, 164781, 166496, 168221, 169955, 171699, 173452, 175216, 176989,
    178772, 180564, 182367, 184179, 186001, 187832, 189674, 191525, 193386, 195257,
    197138, 199029, 200929, 202839, 204759, 206689, 208629, 210579, 212539, 214508,
    216488, 218477, 220477, 222486, 224505, 226535, 228574, 230623, 232682, 234751,
    236830, 238919, 241018, 243128, 245247, 247376, 249515, 251665, 253824, 255993,
    258173, 260362, 262562, 264772, 266992, 269222, 271462, 273712, 275972, 278243,
    280524, 282815, 285116, 287427, 289748, 292080, 294421, 296773, 299135, 301508,
    303890, 306283, 308686, 311100, 313523, 315957, 318401, 320856, 323320, 325795,
    328280, 330776, 333282, 335798, 338325, 340861, 343409, 345966, 348534, 351112,
    353701, 356300, 358909, 361529, 364159, 366800, 369451, 372112, 374784, 377466,
    380159, 382862, 385576, 388300, 391034, 393779, 396535, 399300, 402077, 404864,
    407661, 410469, 413288, 416117, 418956, 421806, 424667, 427538, 430420, 433312,
    436215, 439128, 442052, 444986, 447932, 450887, 453854, 456831, 459818, 462817,
    465825, 468845, 471875, 474916, 477967, 481029, 484102, 487186, 490280, 493385,
    496500, 499626, 502763, 505911, 509069, 512238, 515418, 518609, 521810, 525022,
    528245, 531478, 534722, 537978, 541243, 544520, 547808, 551106, 554415, 557735,
    561065, 564407, 567759, 571122, 574496, 577881, 581277, 584683, 588101, 591529,
    594968, 598418, 601879, 605351, 608833, 612327, 615831, 619347, 622873, 626410,
    629958, 633517, 637087, 640668, 644260, 647863, 651477, 655102, 658738, 662384,
    666042, 669711, 673391, 677081, 680783, 684496, 688219, 691954, 695700, 699457,
    703225, 707004, 710794, 714595, 718407, 722230, 726064, 729910, 733766, 737633,
    741512, 745402, 749302, 753214, 757137, 761071, 765017, 768973, 772940, 776919,
    780909, 784910, 788922, 792945, 796979, 801025, 805082, 809150, 813229, 817319,
    821421, 825533, 829657, 833792, 837939, 842096, 846265, 850445, 854636, 858839,
    863053, 867278, 871514, 875761, 880020, 884290, 888572, 892864, 897168, 901483,
    905810, 910148, 914497, 918857, 923229, 927612, 932006, 936412, 940829, 945257,
    949697, 954148, 958610, 963084, 967569, 972066, 976574, 981093, 985624, 990166,
    994719, 999284, 1003860, 1008448, 1013047, 1017657, 1022279, 1026913, 1031557, 1036214,
    1040881, 1045560, 1050251, 1054953, 1059666, 1064391, 1069127, 1073875, 1078635, 1083405,
    1088188, 1092981, 1097787, 1102604, 1107432, 1112272, 1117123, 1121986, 1126860, 1131746,
    1136643, 1141552, 1146473, 1151405, 1156348, 1161303, 1166270, 1171248, 1176238, 1181240,
    1186253, 1191277, 1196313, 1201361, 1206420, 1211491, 1216574, 1221668, 1226774, 1231891,
    1237020, 1242161, 1247313, 1252477, 1257652, 1262839, 1268038, 1273249, 1278471, 1283705,
    1288950, 1294207, 1299476, 1304756, 1310049, 1315352, 1320668, 1325995, 1331334, 1336685,
    1342047, 1347421, 1352807, 1358204, 1363614, 1369035, 1374467, 1379912, 1385368, 1390836,
    1396315, 1401807, 1407310, 1412825, 1418352, 1423890, 1429440, 1435002, 1440576, 1446162,
    1451759, 1457368, 1462989, 1468622, 1474267, 1479923, 1485591, 1491271, 1496963, 1502667,
    1508382, 1514110, 1519849, 1525600, 1531363, 1537138, 1542924, 1548723, 1554533, 1560355,
    1566189, 1572035, 1577893, 1583763, 1589645, 1595538, 1601444, 1607361, 1613290, 1619231,
    1625184, 1631149, 1637126, 1643115, 1649116, 1655128, 1661153, 1667190, 1673238, 1679299,
    1685371, 1691455, 1697552, 1703660, 1709780, 1715912, 1722057, 1728213, 1734381, 1740561,
    1746753, 1752958, 1759174, 1765402, 1771642, 1777894, 1784158, 1790435, 1796723, 1803023,
    1809335, 1815660, 1821996, 1828345, 1834705, 1841078, 1847462, 1853859, 1860267, 1866688,
    1873121, 1879566, 1886023, 1892492, 1898973, 1905466, 1911972, 1918489, 1925018, 1931560,
    1938114, 1944680, 1951258, 1957848, 1964450, 1971064, 1977691, 1984329, 1990980, 1997643,
    2004318, 2011005, 2017704, 2024416, 2031139, 2037875, 2044623, 2051383, 2058155, 2064940,
    2071736, 2078545, 2085366, 2092199, 2099045, 2105902, 2112772, 2119654, 2126548, 2133455,
    2140373, 2147304, 2154247, 2161202, 2168170, 2175150, 2182142, 2189146, 2196162, 2203191,
    2210232, 2217285, 2224351, 2231429, 2238519, 2245621, 2252736, 2259863, 2267002, 2274153,
    2281317, 2288493, 2295681, 2302882, 2310095, 2317320, 2324557, 2331807, 2339069, 2346344,
    2353630, 2360930, 2368241, 2375565, 2382901, 2390249, 2397610, 2404983, 2412369, 2419767,
    2427177, 2434599, 2442034, 2449482, 2456941, 2464413, 2471898, 2479394, 2486904, 2494425,
    2501959, 2509505, 2517064, 2524635, 2532219, 2539815, 2547423, 2555044, 2562677, 2570323,
    2577981, 2585651, 2593334, 2601030, 2608737, 2616458, 2624190, 2631936, 2639693, 2647463,
    2655246, 2663041, 2670848, 2678668, 2686500, 2694345, 2702202, 2710072, 2717954, 2725849,
    2733757, 2741676, 2749609, 2757553, 2765511, 2773480, 2781463, 2789457, 2797465, 2805485,
    2813517, 2821562, 2829619, 2837689, 2845772, 2853867, 2861974, 2870094, 2878227, 2886372,
    2894530, 2902700, 2910883, 2919079, 2927287, 2935507, 2943741, 2951986, 2960245, 2968516,
    2976799, 2985095, 2993404, 3001725, 3010059, 3018406, 3026765, 3035137, 3043521, 3051918,
    3060328, 3068750, 3077185, 3085632, 3094092, 3102565, 3111050, 3119548, 3128059, 3136582,
    3145118, 3153667, 3162228, 3170802, 3179389, 3187988, 3196600, 3205225, 3213862, 3222512,
    3231175, 3239850, 3248538, 3257239, 3265952, 3274678, 3283417, 3292169, 3300933, 3309710,
    3318499, 3327302, 3336117, 3344945, 3353785, 3362639, 3371505, 3380383, 3389275, 3398179,
    3407096, 3416026, 3424968, 3433923, 3442891, 3451872, 3460866, 3469872, 3478891, 3487923,
    3496967, 3506025, 3515095, 3524178, 3533274, 3542382, 3551503, 3560637, 3569784, 3578944,
    3588117, 3597302, 3606500, 3615711, 3624935, 3634171, 3643421, 3652683, 3661958, 3671246,
    3680546, 3689860, 3699186, 3708526, 3717878, 3727243, 3736620, 3746011, 3755415, 3764831,
    3774260, 3783702, 3793157, 3802625, 3812106, 3821599, 3831106, 3840625, 3850157, 3859702,
    3869260, 3878831, 3888415, 3898012, 3907622, 3917244, 3926879, 3936528, 3946189, 3955863,
    3965550, 3975250, 3984963, 3994689, 4004428, 4014180, 4023945, 4033722, 4043513, 4053316,
    4063133, 4072962, 4082805, 4092660, 4102528, 4112410, 4122304, 4132211, 4142131, 4152064,
    4162011, 4171970, 4181942, 4191927, 4201925, 4211936, 4221960, 4231997, 4242047, 4252110,
    4262186, 4272276, 4282378, 4292493, 4302621, 4312762, 4322916, 4333083, 4343264, 4353457,
    4363663, 4373883, 4384115, 4394360, 4404619, 4414890, 4425175, 4435473, 4445783, 4456107,
    4466444, 4476794, 4487157, 4497533, 4507922, 4518324, 4528739, 4539168, 4549609, 4560064,
    4570531, 4581012, 4591506, 4602012, 4612532, 4623066, 4633612, 4644171, 4654743, 4665329,
    4675928, 4686539, 4697164, 4707802, 4718453, 4729118, 4739795, 4750486, 4761189, 4771906,
    4782636, 4793379, 4804135, 4814905, 4825687, 4836483, 4847292, 4858114, 4868949, 4879798,
    4890659, 4901534, 4912422, 4923323, 4934237, 4945164, 4956105, 4967059, 4978026, 4989006,
    5000000, 5011006, 5022026, 5033059, 5044105, 5055165, 5066237, 5077323, 5088422, 5099534,
    5110660, 5121799, 5132951, 5144116, 5155294, 5166486, 5177691, 5188909, 5200140, 5211385,
    5222643, 5233914, 5245199, 5256496, 5267807, 5279131, 5290469, 5301820, 5313184, 5324561,
    5335951, 5347355, 5358772, 5370203, 5381646, 5393103, 5404573, 5416057, 5427554, 5439064,
    5450587, 5462124, 5473674, 5485238, 5496814, 5508404, 5520008, 5531624, 5543254, 5554897,
    5566554, 5578224, 5589907, 5601604, 5613314, 5625037, 5636774, 5648523, 5660287, 5672063,
    5683853, 5695657, 5707473, 5719304, 5731147, 5743004, 5754874, 5766758, 5778654, 5790565,
    5802488, 5814425, 5826376, 5838340, 5850317, 5862307, 5874311, 5886329, 5898360, 5910404,
    5922461, 5934532, 5946617, 5958714, 5970826, 5982950, 5995088, 6007240, 6019405, 6031583,
    6043775, 6055980, 6068198, 6080430, 6092676, 6104935, 6117207, 6129493, 6141792, 6154105,
    6166431 >>

RealisticCurve ==
    <<
    0, 0, 1, 4, 10, 17, 27, 41, 57, 76,
    100, 126, 157, 192, 231, 275, 323, 376, 434, 497,
    565, 639, 717, 802, 892, 988, 1090, 1197, 1311, 1432,
    1558, 1692, 1831, 1978, 2131, 2291, 2458, 2633, 2814, 3003,
    3200, 3403, 3615, 3834, 4060, 4295, 4538, 4789, 5047, 5314,
    5590, 5873, 6166, 6466, 6776, 7094, 7421, 7756, 8101, 8455,
    8818, 9190, 9571, 9962, 10362, 10771, 11190, 11619, 12057, 12506,
    12964, 13432, 13910, 14398, 14896, 15404, 15923, 16452, 16991, 17541,
    18101, 18672, 19254, 19847, 20450, 21064, 21689, 22325, 22972, 23630,
    24300, 24980, 25672, 26375, 27090, 27816, 28554, 29304, 30065, 30838,
    31622, 32419, 33227, 34048, 34880, 35725, 36581, 37450, 38331, 39225,
    40131, 41049, 41980, 42923, 43879, 44848, 45829, 46823, 47830, 48850,
    49883, 50928, 51987, 53059, 54144, 55242, 56354, 57479, 58617, 59768,
    60933, 62112, 63304, 64510, 65729, 66962, 68209, 69470, 70745, 72033,
    73336, 74653, 75983, 77328, 78687, 80060, 81448, 82850, 84266, 85697,
    87142, 88601, 90075, 91564, 93068, 94586, 96119, 97667, 99229, 100807,
    102400, 104007, 105630, 107267, 108920, 110588, 112271, 113970, 115683, 117413,
    119157, 120917, 122693, 124484, 126291, 128113, 129951, 131805, 133674, 135560,
    137461, 139378, 141311, 143260, 145226, 147207, 149204, 151218, 153247, 155293,
    157356, 159434, 161529, 163641, 165769, 167913, 170074, 172252, 174446, 176657,
    178885, 181129, 183391, 185669, 187964, 190276, 192605, 194951, 197314, 199694,
    202091, 204506, 206937, 209386, 211852, 214336, 216837, 219355, 221891, 224445,
    227016, 229604, 232210, 234834, 237476, 240135, 242812, 245507, 248220, 250950,
    253699, 256466, 259250, 262053, 264874, 267713, 270570, 273445, 276339, 279251,
    282181, 285129, 288096, 291082, 294086, 297108, 300149, 303209, 306287, 309384,
    312500, 315634, 318787, 321959, 325150, 328360, 331588, 334836, 338103, 341388,
    344693, 348017, 351360, 354723, 358104, 361505, 364925, 368364, 371823, 375301,
    378799, 382316, 385853, 389409, 392985, 396580, 400195, 403830, 407485, 411159,
    414853, 418567, 422301, 426055, 429829, 433622, 437436, 441270, 445124, 448998,
    452892, 456806, 460741, 464696, 468671, 472666, 476682, 480718, 484775, 488852,
    492950, 497068, 501207, 505366, 509546, 513747, 517968, 522210, 526473, 530757,
    535062, 539387, 543733, 548101, 552489, 556898, 561329, 565780, 570253, 574746,
    579261, 583797, 588355, 592933, 597533, 602155, 606797, 611461, 616147, 620854,
    625582, 630332, 635104, 639897, 644712, 649549, 654407, 659287, 664189, 669112,
    674058, 679025, 684014, 689025, 694058, 699113, 704190, 709289, 714410, 719554,
    724719, 729907, 735117, 740349, 745603, 750880, 756179, 761501, 766844, 772211,
    777600, 783011, 788445, 793901, 799380, 804881, 810406, 815953, 821522, 827115,
    832730, 838368, 844028, 849712, 855419, 861148, 866901, 872676, 878475, 884296,
    890141, 896009, 901900, 907814, 913751, 919711, 925695, 931702, 937733, 943787,
    949864, 955964, 962088, 968236, 974407, 980601, 986820, 993061, 999327, 1005616,
    1011928, 1018265, 1024625, 1031009, 1037417, 1043848, 1050304, 1056783, 1063286, 1069813,
    1076365, 1082940, 1089539, 1096162, 1102810, 1109481, 1116177, 1122897, 1129641, 1136410,
    1143202, 1150019, 1156860, 1163726, 1170616, 1177530, 1184469, 1191433, 1198421, 1205433,
    1212470, 1219531, 1226618, 1233728, 1240864, 1248024, 1255209, 1262419, 1269653, 1276912,
    1284197, 1291506, 1298840, 1306198, 1313582, 1320991, 1328425, 1335884, 1343368, 1350877,
    1358411, 1365970, 1373555, 1381164, 1388799, 1396459, 1404145, 1411856, 1419592, 1427354,
    1435141, 1442953, 1450791, 1458654, 1466543, 1474457, 1482397, 1490363, 1498354, 1506371,
    1514414, 1522482, 1530576, 1538696, 1546841, 1555013, 1563210, 1571433, 1579682, 1587957,
    1596258, 1604584, 1612937, 1621316, 1629721, 1638152, 1646609, 1655093, 1663602, 1672138,
    1680700, 1689288, 1697902, 1706543, 1715210, 1723903, 1732623, 1741369, 1750142, 1758941,
    1767766, 1776619, 1785497, 1794402, 1803334, 1812293, 1821278, 1830289, 1839328, 1848393,
    1857485, 1866604, 1875749, 1884922, 1894121, 1903347, 1912600, 1921880, 1931187, 1940521,
    1949882, 1959270, 1968685, 1978127, 1987596, 1997092, 2006616, 2016167, 2025745, 2035350,
    2044982, 2054642, 2064329, 2074044, 2083786, 2093555, 2103352, 2113176, 2123027, 2132906,
    2142813, 2152747, 2162709, 2172699, 2182716, 2192760, 2202833, 2212933, 2223061, 2233216,
    2243400, 2253611, 2263850, 2274117, 2284411, 2294734, 2305085, 2315463, 2325870, 2336304,
    2346767, 2357258, 2367776, 2378323, 2388898, 2399502, 2410133, 2420792, 2431480, 2442196,
    2452941, 2463713, 2474514, 2485344, 2496202, 2507088, 2518002, 2528945, 2539917, 2550917,
    2561946, 2573003, 2584088, 2595203, 2606346, 2617517, 2628718, 2639947, 2651205, 2662491,
    2673806, 2685150, 2696523, 2707925, 2719356, 2730815, 2742304, 2753821, 2765368, 2776943,
    2788548, 2800181, 2811844, 2823535, 2835256, 2847006, 2858785, 2870593, 2882431, 2894297,
    2906193, 2918119, 2930073, 2942057, 2954070, 2966113, 2978185, 2990287, 3002418, 3014578,
    3026768, 3038988, 3051237, 3063515, 3075823, 3088161, 3100529, 3112926, 3125353, 3137809,
    3150296, 3162812, 3175358, 3187933, 3200539, 3213174, 3225839, 3238534, 3251259, 3264015,
    3276800, 3289615, 3302460, 3315335, 3328240, 3341175, 3354140, 3367136, 3380162, 3393217,
    3406303, 3419420, 3432566, 3445743, 3458950, 3472188, 3485455, 3498754, 3512082, 3525441,
    3538831, 3552251, 3565701, 3579182, 3592693, 3606235, 3619808, 3633411, 3647045, 3660709,
    3674404, 3688130, 3701887, 3715674, 3729492, 3743341, 3757220, 3771131, 3785072, 3799044,
    3813048, 3827082, 3841147, 3855243, 3869369, 3883527, 3897716, 3911936, 3926188, 3940470,
    3954783, 3969128, 3983503, 3997910, 4012348, 4026818, 4041318, 4055850, 4070413, 4085008,
    4099634, 4114291, 4128980, 4143700, 4158451, 4173234, 4188048, 4202894, 4217772, 4232681,
    4247622, 4262594, 4277598, 4292633, 4307700, 4322799, 4337930, 4353092, 4368286, 4383512,
    4398769, 4414059, 4429380, 4444733, 4460118, 4475535, 4490984, 4506465, 4521978, 4537522,
    4553099, 4568708, 4584349, 4600022, 4615727, 4631464, 4647233, 4663035, 4678869, 4694735,
    4710633, 4726563, 4742526, 4758521, 4774548, 4790608, 4806700, 4822825, 4838981, 4855171,
    4871392, 4887647, 4903933, 4920253, 4936604, 4952989, 4969406, 4985855, 5002337, 5018852,
    5035400, 5051980, 5068593, 5085238, 5101917, 5118628, 5135372, 5152148, 5168958, 5185801,
    5202676, 5219584, 5236525, 5253499, 5270507, 5287547, 5304620, 5321726, 5338865, 5356037,
    5373243, 5390481, 5407753, 5425058, 5442396, 5459767, 5477171, 5494609, 5512080, 5529584,
    5547122, 5564692, 5582297, 5599934, 5617605, 5635310, 5653047, 5670819, 5688623, 5706462,
    5724334, 5742239, 5760178, 5778150, 5796156, 5814196, 5832269, 5850376, 5868517, 5886691,
    5904900, 5923141, 5941417, 5959726, 5978070, 5996447, 6014858, 6033303, 6051781, 6070294,
    6088840, 6107421, 6126035, 6144684, 6163367, 6182083, 6200834, 6219618, 6238437, 6257290,
    6276177, 6295098, 6314054, 6333043, 6352067, 6371125, 6390218, 6409344, 6428505, 6447701,
    6466930, 6486194, 6505493, 6524826, 6544193, 6563594, 6583031, 6602501, 6622006, 6641546,
    6661120, 6680729, 6700373, 6720051, 6739763, 6759511, 6779293, 6799109, 6818961, 6838847,
    6858768, 6878723, 6898714, 6918739, 6938799, 6958894, 6979024, 6999189, 7019389, 7039623,
    7059893, 7080197, 7100537, 7120911, 7141321, 7161766, 7182245, 7202760, 7223310, 7243895,
    7264515, 7285171, 7305861, 7326587, 7347348, 7368145, 7388976, 7409843, 7430745, 7451683,
    7472656, 7493664, 7514708, 7535787, 7556902, 7578052, 7599237, 7620458, 7641715, 7663007,
    7684334, 7705697, 7727096, 7748531, 7770001, 7791506, 7813048, 7834625, 7856237, 7877886,
    7899570, 7921290, 7943046, 7964837, 7986665, 8008528, 8030427, 8052362, 8074333, 8096340,
    8118383, 8140462, 8162577, 8184728, 8206914, 8229137, 8251396, 8273691, 8296022, 8318390,
    8340793, 8363233, 8385708, 8408220, 8430769, 8453353, 8475974, 8498631, 8521324, 8544053,
    8566819, 8589622, 8612460, 8635335, 8658247, 8681195, 8704179, 8727200, 8750257, 8773351,
    8796481, 8819648, 8842852, 8866092, 8889369, 8912682, 8936032, 8959418, 8982842, 9006302,
    9029798, 9053332, 9076902, 9100509, 9124153, 9147834, 9171551, 9195305, 9219097, 9242925,
    9266790, 9290692, 9314631, 9338607, 9362619, 9386669, 9410756, 9434880, 9459041, 9483239,
    9507474, 9531747, 9556056, 9580403, 9604787, 9629208, 9653666, 9678161, 9702694, 9727264,
    9751871, 9776516, 9801198, 9825917, 9850674, 9875468, 9900299, 9925168, 9950074, 9975018,
    10000000, 10025018, 10050075, 10075168, 10100300, 10125469, 10150675, 10175919, 10201201, 10226521,
    10251878, 10277272, 10302705, 10328175, 10353683, 10379229, 10404812, 10430434, 10456093, 10481790,
    10507524, 10533297, 10559108, 10584956, 10610843, 10636767, 10662729, 10688730, 10714768, 10740844,
    10766959, 10793111, 10819301, 10845530, 10871797, 10898102, 10924445, 10950826, 10977245, 11003703,
    11030199, 11056733, 11083305, 11109915, 11136564, 11163251, 11189977, 11216741, 11243543, 11270384,
    11297263, 11324180, 11351136, 11378130, 11405163, 11432235, 11459345, 11486493, 11513680, 11540905,
    11568170, 11595472, 11622814, 11650194, 11677612, 11705070, 11732566, 11760100, 11787674, 11815286,
    11842937, 11870627, 11898356, 11926123, 11953929, 11981775, 12009659, 12037581, 12065543, 12093544,
    12121584, 12149663, 12177780, 12205937, 12234133, 12262368, 12290641, 12318954, 12347306, 12375697,
    12404128, 12432597, 12461106, 12489653, 12518240, 12546867, 12575532, 12604237, 12632981, 12661764,
    12690587 >>

OptimisticCurve ==
    <<
    0, 0, 0, 1, 3, 7, 12, 18, 26, 37,
    50, 65, 83, 104, 128, 156, 187, 221, 260, 303,
    349, 401, 456, 517, 582, 653, 729, 810, 897, 990,
    1088, 1193, 1304, 1421, 1545, 1676, 1814, 1958, 2110, 2269,
    2436, 2611, 2793, 2983, 3181, 3388, 3603, 3827, 4059, 4301,
    4551, 4810, 5079, 5358, 5645, 5943, 6251, 6568, 6896, 7234,
    7583, 7942, 8312, 8693, 9085, 9488, 9902, 10328, 10766, 11215,
    11676, 12149, 12634, 13132, 13642, 14164, 14699, 15247, 15808, 16382,
    16970, 17570, 18184, 18812, 19454, 20109, 20779, 21462, 22160, 22872,
    23599, 24341, 25097, 25869, 26655, 27457, 28274, 29106, 29954, 30818,
    31697, 32593, 33505, 34432, 35377, 36337, 37315, 38309, 39320, 40348,
    41393, 42455, 43535, 44632, 45747, 46879, 48029, 49198, 50384, 51589,
    52812, 54054, 55314, 56593, 57890, 59207, 60543, 61898, 63272, 64666,
    66080, 67513, 68966, 70439, 71932, 73445, 74978, 76532, 78107, 79702,
    81318, 82955, 84613, 86292, 87992, 89714, 91457, 93222, 95008, 96816,
    98647, 100499, 102374, 104271, 106191, 108133, 110097, 112085, 114095, 116129,
    118185, 120265, 122369, 124495, 126646, 128820, 131018, 133240, 135486, 137756,
    140051, 142370, 144713, 147081, 149474, 151892, 154335, 156803, 159296, 161814,
    164358, 166928, 169523, 172144, 174791, 177464, 180163, 182888, 185640, 188418,
    191222, 194054, 196912, 199797, 202709, 205649, 208615, 211609, 214631, 217680,
    220756, 223861, 226993, 230154, 233342, 236559, 239804, 243078, 246381, 249712,
    253071, 256460, 259878, 263325, 266801, 270307, 273842, 277406, 281001, 284625,
    288279, 291963, 295677, 299421, 303196, 307001, 310837, 314704, 318601, 322529,
    326488, 330478, 334500, 338552, 342637, 346752, 350900, 355079, 359290, 363533,
    367808, 372115, 376454, 380826, 385231, 389668, 394137, 398640, 403176, 407744,
    412346, 416981, 421649, 426351, 431086, 435855, 440658, 445494, 450365, 455270,
    460209, 465182, 470190, 475232, 480309, 485420, 490567, 495748, 500965, 506216,
    511503, 516825, 522183, 527576, 533005, 538470, 543970, 549507, 555079, 560688,
    566333, 572015, 577733, 583488, 589279, 595107, 600972, 606875, 612814, 618790,
    624804, 630856, 636945, 643071, 649235, 655438, 661678, 667956, 674272, 680627,
    687020, 693451, 699921, 706430, 712977, 719564, 726189, 732853, 739557, 746300,
    753082, 759904, 766766, 773667, 780608, 787588, 794609, 801670, 808771, 815913,
    823094, 830317, 837580, 844883, 852228, 859613, 867040, 874507, 882016, 889566,
    897158, 904791, 912465, 920182, 927940, 935740, 943582, 951466, 959393, 967362,
    975373, 983427, 991523, 999662, 1007844, 1016069, 1024337, 1032648, 1041002, 1049400,
    1057841, 1066325, 1074853, 1083425, 1092041, 1100701, 1109404, 1118152, 1126944, 1135780,
    1144661, 1153586, 1162556, 1171570, 1180630, 1189734, 1198883, 1208078, 1217317, 1226602,
    1235932, 1245308, 1254729, 1264196, 1273709, 1283268, 1292873, 1302524, 1312221, 1321964,
    1331754, 1341590, 1351473, 1361402, 1371378, 1381401, 1391471, 1401589, 1411753, 1421964,
    1432223, 1442530, 1452884, 1463285, 1473735, 1484232, 1494777, 1505370, 1516011, 1526701,
    1537439, 1548225, 1559060, 1569943, 1580876, 1591857, 1602886, 1613965, 1625093, 1636271,
    1647497, 1658773, 1670098, 1681473, 1692898, 1704373, 1715897, 1727471, 1739096, 1750770,
    1762495, 1774270, 1786096, 1797972, 1809899, 1821876, 1833905, 1845984, 1858114, 1870296,
    1882528, 1894812, 1907148, 1919535, 1931973, 1944464, 1957006, 1969599, 1982245, 1994943,
    2007693, 2020496, 2033350, 2046258, 2059217, 2072230, 2085295, 2098413, 2111584, 2124808,
    2138085, 2151415, 2164799, 2178236, 2191726, 2205270, 2218868, 2232519, 2246225, 2259984,
    2273798, 2287665, 2301587, 2315563, 2329594, 2343679, 2357819, 2372014, 2386263, 2400567,
    2414926, 2429341, 2443810, 2458335, 2472915, 2487551, 2502242, 2516989, 2531792, 2546651,
    2561565, 2576535, 2591562, 2606645, 2621784, 2636980, 2652232, 2667540, 2682906, 2698328,
    2713807, 2729343, 2744936, 2760586, 2776293, 2792058, 2807880, 2823760, 2839698, 2855693,
    2871745, 2887856, 2904025, 2920252, 2936537, 2952880, 2969281, 2985742, 3002260, 3018837,
    3035473, 3052168, 3068922, 3085734, 3102606, 3119537, 3136527, 3153577, 3170686, 3187855,
    3205083, 3222371, 3239719, 3257127, 3274595, 3292122, 3309711, 3327359, 3345068, 3362837,
    3380667, 3398557, 3416508, 3434521, 3452594, 3470728, 3488923, 3507179, 3525497, 3543876,
    3562316, 3580818, 3599382, 3618007, 3636695, 3655444, 3674255, 3693129, 3712064, 3731062,
    3750123, 3769245, 3788431, 3807679, 3826990, 3846363, 3865800, 3885299, 3904862, 3924488,
    3944177, 3963930, 3983746, 4003626, 4023569, 4043576, 4063647, 4083782, 4103980, 4124243,
    4144571, 4164962, 4185418, 4205938, 4226523, 4247173, 4267887, 4288666, 4309510, 4330419,
    4351393, 4372433, 4393537, 4414707, 4435943, 4457244, 4478610, 4500043, 4521541, 4543105,
    4564735, 4586431, 4608194, 4630022, 4651917, 4673879, 4695907, 4718002, 4740163, 4762391,
    4784686, 4807048, 4829477, 4851974, 4874537, 4897168, 4919866, 4942632, 4965466, 4988367,
    5011336, 5034372, 5057477, 5080650, 5103891, 5127200, 5150578, 5174024, 5197538, 5221121,
    5244773, 5268493, 5292283, 5316141, 5340068, 5364065, 5388130, 5412265, 5436470, 5460743,
    5485087, 5509500, 5533982, 5558535, 5583157, 5607850, 5632613, 5657445, 5682348, 5707322,
    5732366, 5757480, 5782665, 5807921, 5833247, 5858645, 5884113, 5909653, 5935263, 5960945,
    5986698, 6012523, 6038419, 6064386, 6090426, 6116537, 6142720, 6168975, 6195302, 6221701,
    6248172, 6274716, 6301332, 6328020, 6354781, 6381615, 6408521, 6435500, 6462552, 6489677,
    6516875, 6544147, 6571491, 6598909, 6626400, 6653965, 6681604, 6709316, 6737102, 6764962,
    6792895, 6820903, 6848985, 6877141, 6905372, 6933676, 6962056, 6990509, 7019038, 7047641,
    7076319, 7105072, 7133900, 7162803, 7191781, 7220835, 7249964, 7279168, 7308448, 7337803,
    7367234, 7396741, 7426324, 7455982, 7485717, 7515528, 7545415, 7575378, 7605418, 7635534,
    7665727, 7695996, 7726342, 7756765, 7787265, 7817842, 7848496, 7879227, 7910035, 7940921,
    7971884, 8002924, 8034042, 8065238, 8096512, 8127863, 8159293, 8190800, 8222385, 8254049,
    8285791, 8317611, 8349510, 8381487, 8413543, 8445678, 8477891, 8510184, 8542555, 8575005,
    8607535, 8640143, 8672831, 8705599, 8738446, 8771372, 8804378, 8837464, 8870630, 8903875,
    8937201, 8970606, 9004092, 9037658, 9071304, 9105031, 9138838, 9172726, 9206695, 9240744,
    9274874, 9309085, 9343377, 9377751, 9412205, 9446741, 9481358, 9516056, 9550836, 9585698,
    9620641, 9655666, 9690773, 9725962, 9761233, 9796586, 9832021, 9867538, 9903138, 9938821,
    9974586, 10010433, 10046363, 10082376, 10118472, 10154651, 10190913, 10227258, 10263687, 10300198,
    10336793, 10373472, 10410234, 10447079, 10484009, 10521022, 10558119, 10595300, 10632566, 10669915,
    10707349, 10744866, 10782469, 10820156, 10857927, 10895783, 10933724, 10971749, 11009860, 11048055,
    11086336, 11124702, 11163153, 11201689, 11240311, 11279018, 11317811, 11356689, 11395653, 11434703,
    11473839, 11513061, 11552369, 11591764, 11631244, 11670811, 11710464, 11750204, 11790030, 11829943,
    11869943, 11910030, 11950203, 11990464, 12030811, 12071246, 12111768, 12152378, 12193075, 12233859,
    12274731, 12315691, 12356738, 12397873, 12439096, 12480407, 12521807, 12563294, 12604870, 12646534,
    12688286, 12730127, 12772057, 12814075, 12856182, 12898378, 12940663, 12983037, 13025499, 13068052,
    13110693, 13153424, 13196244, 13239153, 13282152, 13325241, 13368420, 13411688, 13455047, 13498495,
    13542034, 13585662, 13629381, 13673190, 13717090, 13761080, 13805161, 13849332, 13893595, 13937948,
    13982392, 14026927, 14071553, 14116270, 14161078, 14205978, 14250969, 14296052, 14341226, 14386492,
    14431850, 14477299, 14522841, 14568474, 14614200, 14660017, 14705927, 14751929, 14798024, 14844211,
    14890491, 14936863, 14983328, 15029886, 15076537, 15123280, 15170117, 15217047, 15264070, 15311187,
    15358397, 15405700, 15453097, 15500587, 15548172, 15595850, 15643622, 15691488, 15739448, 15787502,
    15835650, 15883893, 15932230, 15980661, 16029187, 16077808, 16126523, 16175333, 16224238, 16273238,
    16322333, 16371523, 16420809, 16470189, 16519665, 16569236, 16618903, 16668666, 16718524, 16768478,
    16818528, 16868673, 16918915, 16969253, 17019687, 17070217, 17120844, 17171567, 17222386, 17273302,
    17324315, 17375425, 17426631, 17477934, 17529335, 17580832, 17632426, 17684118, 17735907, 17787794,
    17839778, 17891859, 17944038, 17996315, 18048690, 18101162, 18153733, 18206401, 18259168, 18312033,
    18364996, 18418058, 18471218, 18524476, 18577833, 18631289, 18684844, 18738497, 18792250, 18846101,
    18900052, 18954102, 19008251, 19062499, 19116847, 19171294, 19225841, 19280488, 19335234, 19390080,
    19445026, 19500072, 19555218, 19610464, 19665811, 19721258, 19776805, 19832453, 19888201, 19944050,
    20000000, 20056050, 20112201, 20168453, 20224807, 20281261, 20337817, 20394474, 20451232, 20508092,
    20565053, 20622116, 20679280, 20736547, 20793915, 20851385, 20908957, 20966631, 21024407, 21082286,
    21140267, 21198350, 21256536, 21314824, 21373215, 21431709, 21490306, 21549005, 21607808, 21666713,
    21725722, 21784834, 21844049, 21903367, 21962789, 22022315, 22081944, 22141677, 22201513, 22261454,
    22321498, 22381646, 22441899, 22502255, 22562716, 22623281, 22683951, 22744725, 22805604, 22866587,
    22927675, 22988868, 23050166, 23111569, 23173077, 23234690, 23296408, 23358231, 23420160, 23482194,
    23544334, 23606579, 23668930, 23731387, 23793950, 23856619, 23919393, 23982274, 24045261, 24108354,
    24171554, 24234859, 24298272, 24361791, 24425416, 24489149, 24552988, 24616934, 24680987, 24745147,
    24809414, 24873788, 24938270, 25002859, 25067555, 25132359, 25197270, 25262290, 25327417, 25392651,
    25457994, 25523445, 25589004, 25654670, 25720446, 25786329, 25852321, 25918421, 25984630, 26050948,
    26117374 >>

\* Conservative with a scale of 50,000,000 in place of 5,000,000.
ConservativeScaleTen(unicorn_score) ==
    Min(max_valuation, Max(0, ConservativeCurve[unicorn_score + 1] * 10))

Conservative(unicorn_score) ==
    Min(max_valuation, Max(0, ConservativeCurve[unicorn_score + 1]))

\* Realistic with a scale of 1,000,000,000 in place of 10,000,000.
RealisticScaleHundred(unicorn_score) ==
    Min(max_valuation, Max(0, RealisticCurve[unicorn_score + 1] * 100))

\* Realistic computed from the shortfall 100 - unicorn_score.
RealisticOfShortfall(unicorn_score) ==
    Min(max_valuation, Max(0, RealisticCurve[Max(0, 1000 - unicorn_score) + 1]))

Realistic(unicorn_score) ==
    Min(max_valuation, Max(0, RealisticCurve[unicorn_score + 1]))

Optimistic(unicorn_score) ==
    Min(max_valuation, Max(0, OptimisticCurve[unicorn_score + 1]))

\* Tier with exclusive lower bounds (> in place of >=).
TierExclusive(unicorn_score) ==
    IF unicorn_score > 900 THEN "unicorn"
    ELSE IF unicorn_score > 750 THEN "soaring"
    ELSE IF unicorn_score > 600 THEN "rising_star"
    ELSE IF unicorn_score > 450 THEN "promising"
    ELSE IF unicorn_score > 300 THEN "early_stage"
    ELSE "seed_stage"

\* Determine unicorn status (unicorn_score in tenths).
Tier(unicorn_score) ==
    IF unicorn_score >= 900 THEN "unicorn"
    ELSE IF unicorn_score >= 750 THEN "soaring"
    ELSE IF unicorn_score >= 600 THEN "rising_star"
    ELSE IF unicorn_score >= 450 THEN "promising"
    ELSE IF unicorn_score >= 300 THEN "early_stage"
    ELSE "seed_stage"

\* The result dictionary for a score mapping and a unicorn score.  The
\* status and interpretation texts, which are formatted from the tier and the
\* scores, are left out; status is one fixed text per tier.
UnicornResult(scores, unicorn_score, codebase_analysis) ==
    LET base ==
            [method           |-> "unicorn_hunter",
             unicorn_score    |-> unicorn_score,
             tier             |-> Tier(unicorn_score),
             component_scores |-> scores,
             speculative_valuation_ranges |->
                 [conservative |-> Conservative(unicorn_score),
                  realistic    |-> Realistic(unicorn_score),
                  optimistic   |-> Optimistic(unicorn_score),
                  maximum_cap  |-> max_valuation]]
    IN  IF HasCodebaseAnalysis(codebase_analysis)
        THEN base @@ [codebase_analysis |-> codebase_analysis]
        ELSE base

\* The results calculate_unicorn_hunter(inputs, codebase_analysis) can return.
calculate_unicorn_hunter(inputs, codebase_analysis) ==
    UNION { { UnicornResult(scores, unicorn_score, codebase_analysis) :
                unicorn_score \in UnicornScore(scores, Weights(codebase_analysis)) } :
            scores \in ComponentScores(inputs.repo_data, codebase_analysis) }

\* The call returns.
CalculateUnicornHunter ==
    /\ uh_result = None
    /\ uh_result' \in calculate_unicorn_hunter(uh_inputs, uh_analysis)
    /\ UNCHANGED <<uh_inputs, uh_analysis>>
    /\ UNCHANGED outside_unicorn

\* A call is made with some repository data and, optionally, a codebase analysis.
InitUnicorn ==
    /\ uh_inputs \in [repo_data : RepoDataSamples]
    /\ uh_analysis \in AnalysisSamples
    /\ uh_result = None
    /\ PackageIdle
    /\ InvokeIdle
    /\ GitHubIdle
    /\ ValuationIdle
    /\ CodebaseIdle

NextUnicorn == CalculateUnicornHunter

\* Star counts from none to a hundred million, among them the counts around
\* 101594, where 20 * (1 + (stars / 1000) ** 0.3) passes 100.
StarCountSamples ==
    {0, 1, 2, 3, 4, 5, 6, 7, 8, 9, 10, 20, 30, 40, 50, 60, 70, 80, 90, 100,
     200, 300, 400, 500, 600, 700, 800, 900, 1000, 2000, 3000, 4000, 5000,
     6000, 7000, 8000, 9000, 10000, 20000, 30000, 40000, 50000, 60000,
     70000, 80000, 90000, 100000, 101593, 101594, 101595, 150000, 200000,
     300000, 500000, 1000000, 10000000, 100000000,
     250, 1000000000}

\* A call for a repository that has only stars, without a codebase analysis.
InitUnicornStars ==
    /\ uh_inputs \in [repo_data : [metrics     : [stars    : StarCountSamples,
                                                  forks    : {0},
                                                  watchers : {0}],
                                   scores      : {EmptyDict},
                                   development : {[contributors     |-> 0,
                                                   total_commits    |-> 0,
                                                   commit_frequency |-> 0]}]]
    /\ uh_analysis = None
    /\ uh_result = None
    /\ PackageIdle
    /\ InvokeIdle
    /\ GitHubIdle
    /\ ValuationIdle
    /\ CodebaseIdle

\* calculate_unicorn_hunter over the star counts.
SpecUnicornStars == InitUnicornStars /\ [][NextUnicorn]_vars

(***************************************************************************)
(* valuation_models.py: ValuationInputs and the cost-based, market-based,  *)
(* scorecard and income-based methods                                      *)
(*                                                                         *)
(* hourly_rate is in cents per hour and market_multiplier in tenths.       *)
(***************************************************************************)

\* The dataclass, with its defaults: one person, $100.00 an hour, six
\* months, a multiplier of 10.0.
ValuationInputs(repo_data, arguments) ==
    [repo_data          |-> repo_data,
     team_size          |-> Get(arguments, "team_size", 1),
     hourly_rate        |-> Get(arguments, "hourly_rate", 10000),
     development_months |-> Get(arguments, "development_months", 6),
     market_multiplier  |-> Get(arguments, "market_multiplier", 100)]

\* round(value, k) of the float value n / d, in units of 10^-k (n >= 0,
\* d > 0); a decimal tie can go to either neighbour, as in RoundTenths.
RoundRatio(n, d) ==
    LET q == n \div d
        r == n % d
    IN  IF 2 * r < d THEN {q}
        ELSE IF 2 * r > d THEN {q + 1}
        ELSE {q, q + 1}

\* calculate_cost_based with 100 hours a month.
CostBasedHundredHours(inputs) ==
    LET dev_hours == inputs.team_size * 100 * inputs.development_months
    IN  dev_hours * inputs.hourly_rate

\* The replacement cost, in cents.
calculate_cost_based(inputs) ==
    LET dev_hours == inputs.team_size * 160 * inputs.development_months
    IN  dev_hours * inputs.hourly_rate

\* sum(comp.get(key, default) for comp in comparable_data)
RECURSIVE SumComparables(_, _, _)
SumComparables(comparable_data, key, default) ==
    IF comparable_data = <<>> THEN 0
    ELSE Get(Head(comparable_data), key, default)
           + SumComparables(Tail(comparable_data), key, default)

\* calculate_market_based that ignores the multiplier.
MarketBasedNoMultiplier(inputs, comparable_data) ==
    Get(Get(inputs.repo_data, "metrics", EmptyDict), "stars", 0) * 1000 * 10

\* calculate_market_based that treats comparables without stars as no
\* comparables at all.
MarketBasedStarsFallback(inputs, comparable_data) ==
    LET total_value == SumComparables(comparable_data, "value", 0)
        total_stars == SumComparables(comparable_data, "stars", 1)
        repo_stars  == Get(Get(inputs.repo_data, "metrics", EmptyDict), "stars", 0)
    IN  IF comparable_data = <<>> \/ total_stars = 0
        THEN repo_stars * 1000 * inputs.market_multiplier
        ELSE (repo_stars * total_value * inputs.market_multiplier) \div total_stars

\* The market value, in tenths of a dollar.  comparable_data is the list of
\* comparables, <<>> when it is None or empty; a comparable's value is in
\* whole dollars.
calculate_market_based(inputs, comparable_data) ==
    IF comparable_data = <<>>
    THEN LET stars == Get(Get(inputs.repo_data, "metrics", EmptyDict), "stars", 0)
         IN  stars * 1000 * inputs.market_multiplier
    ELSE LET total_value == SumComparables(comparable_data, "value", 0)
             total_stars == SumComparables(comparable_data, "stars", 1)
             repo_stars  == Get(Get(inputs.repo_data, "metrics", EmptyDict), "stars", 0)
         IN  IF total_stars = 0 THEN 0
             ELSE (repo_stars * total_value * inputs.market_multiplier) \div total_stars

\* The scorecard weights 0.25, 0.20, 0.15, 0.15, 0.15 and 0.10, in twentieths.
factors ==
    [technology_quality   |-> 5,
     market_opportunity   |-> 4,
     development_team     |-> 3,
     competitive_position |-> 3,
     deployment_readiness |-> 3,
     documentation        |-> 2]

\* A factor's raw score is kept in units of 1 / (1000 * ScoreDen), the
\* common denominator of the repository scores (1 / ScoreDen), of
\* (stars + forks) / 1000, of contributors / 50 and of 0.8; a weighted score
\* and the total are in units of 1 / ScoreUnits.
ScoreUnits == 20 * 1000 * ScoreDen

\* scores, before rounding.
ScorecardScores(repo_data) ==
    LET repo_metrics   == Get(repo_data, "metrics", EmptyDict)
        repo_scores    == Get(repo_data, "scores", EmptyDict)
        dev_info       == Get(repo_data, "development", EmptyDict)
        overall_score  == Get(repo_scores, "overall_score", ScoreSteps)
        stars          == Get(repo_metrics, "stars", 0)
        forks          == Get(repo_metrics, "forks", 0)
        contributors   == Get(dev_info, "contributors", 0)
        activity_score == Get(repo_scores, "activity_score", ScoreSteps)
        health_score   == Get(repo_scores, "health_score", ScoreSteps)
        market_potential == Min(stars + forks, 1000) * ScoreDen
        team_score       == Min(contributors * 20, 1000) * ScoreDen
    IN  [technology_quality   |-> Min(overall_score, ScoreDen) * 1000 * factors.technology_quality,
         market_opportunity   |-> market_potential * factors.market_opportunity,
         development_team     |-> team_score * factors.development_team,
         competitive_position |-> activity_score * 1000 * factors.competitive_position,
         deployment_readiness |-> 800 * ScoreDen * factors.deployment_readiness,
         documentation        |-> health_score * 1000 * factors.documentation]

\* total_score = sum(scores.values())
TotalScore(scores) ==
    scores.technology_quality + scores.market_opportunity + scores.development_team
      + scores.competitive_position + scores.deployment_readiness + scores.documentation

\* base_range with the low and high multipliers exchanged.
BaseRangeSwapped(total_score) ==
    [low    |-> Max(250 * total_score, 5 * ScoreUnits),
     medium |-> Max(50 * total_score, 25 * ScoreUnits),
     high   |-> Max(10 * total_score, 100 * ScoreUnits)]

\* base_range, in units of 1000 / ScoreUnits dollars: the multipliers
\* 10000, 50000 and 250000 and the floors 5000, 25000 and 100000 are in
\* thousands of dollars.
BaseRange(total_score) ==
    [low    |-> Max(10 * total_score, 5 * ScoreUnits),
     medium |-> Max(50 * total_score, 25 * ScoreUnits),
     high   |-> Max(250 * total_score, 100 * ScoreUnits)]

\* The records calculate_scorecard can return: total_score and factor_scores
\* in thousandths (1000 / ScoreUnits = 1 / (20 * ScoreDen)), valuation_range
\* in cents (1000 * 100 / ScoreUnits = 5 / ScoreDen).
calculate_scorecard(inputs) ==
    LET scores      == ScorecardScores(inputs.repo_data)
        total_score == TotalScore(scores)
        base_range  == BaseRange(total_score)
    IN  [total_score   : RoundRatio(total_score, 20 * ScoreDen),
         factor_scores :
             [technology_quality   : RoundRatio(scores.technology_quality, 20 * ScoreDen),
              market_opportunity   : RoundRatio(scores.market_opportunity, 20 * ScoreDen),
              development_team     : RoundRatio(scores.development_team, 20 * ScoreDen),
              competitive_position : RoundRatio(scores.competitive_position, 20 * ScoreDen),
              deployment_readiness : RoundRatio(scores.deployment_readiness, 20 * ScoreDen),
              documentation        : RoundRatio(scores.documentation, 20 * ScoreDen)],
         valuation_range :
             [low    : RoundRatio(base_range.low * 5, ScoreDen),
              medium : RoundRatio(base_range.medium * 5, ScoreDen),
              high   : RoundRatio(base_range.high * 5, ScoreDen)],
         method : {"scorecard"}]

\* calculate_income_based that never estimates the revenue from the stars.
IncomeBasedNoEstimate(inputs, annual_revenue) ==
    [estimated_annual_revenue : RoundRatio(annual_revenue, 10),
     revenue_multiple         : {3},
     discount_rate            : {15},
     valuation                : RoundRatio(annual_revenue * 3 * 10, 115),
     method                   : {"income_based"}]

\* The records calculate_income_based can return.  The revenue is in
\* thousandths of a dollar, the two rounded amounts of the record in cents;
\* the valuation is revenue * 3 / 1.15.
calculate_income_based(inputs, annual_revenue) ==
    LET stars == Get(Get(inputs.repo_data, "metrics", EmptyDict), "stars", 0)
        estimated_revenue == IF annual_revenue <= 0 THEN stars * 100 * 1000
                             ELSE annual_revenue
        revenue_multiple  == 3
        discount_rate     == 15
    IN  [estimated_annual_revenue : RoundRatio(estimated_revenue, 10),
         revenue_multiple         : {revenue_multiple},
         discount_rate            : {discount_rate},
         \* cents: revenue / 10 * 3 / 1.15 = revenue * 3 * 10 / 115
         valuation : RoundRatio(estimated_revenue * revenue_multiple * 10,
                                100 + discount_rate),
         method : {"income_based"}]

\* The arguments of the calls of the four methods.  A call of
\* calculate_market_based without comparable_data leaves it None, a call of
\* calculate_income_based without annual_revenue leaves it 0; a given
\* annual_revenue is in thousandths of a dollar.
CostInputSamples ==
    [repo_data          : {EmptyDict},
     team_size          : {-1, 0, 1, 2, 10},
     hourly_rate        : {0, 10000, 12550, 50000},
     development_months : {0, 1, 6, 24},
     market_multiplier  : {100}]

MarketInputSamples ==
    [repo_data          : {EmptyDict} \cup [metrics : {EmptyDict} \cup [stars : {-5, 0, 1, 100, 5000}]],
     team_size          : {1},
     hourly_rate        : {10000},
     development_months : {6},
     market_multiplier  : {-10, 0, 5, 100, 250}]

\* Lists of comparables whose stars divide their value.
ComparableSamples ==
    { <<>>,
      <<[value |-> 1000, stars |-> 10]>>,
      <<[value |-> 600, stars |-> 4], [value |-> 400, stars |-> 6]>>,
      <<[value |-> 1000]>>,
      <<[value |-> 500, stars |-> 0]>>,
      <<[stars |-> 5], [value |-> 500, stars |-> -5]>> }

ScorecardScoreSamples == ScoreSamples \cup {-ScoreDen, 3 * ScoreDen}

ScorecardInputSamples ==
    [repo_data :
         [metrics     : [stars : {-5, 0, 250, 1000000000}, forks : {0, 50, 750}],
          scores      : {EmptyDict} \cup [overall_score  : ScorecardScoreSamples,
                                          health_score   : ScorecardScoreSamples,
                                          activity_score : ScorecardScoreSamples],
          development : [contributors : {0, 15, 1000000}]],
     team_size          : {1},
     hourly_rate        : {10000},
     development_months : {6},
     market_multiplier  : {100}]

IncomeInputSamples ==
    [repo_data          : {EmptyDict} \cup [metrics : [stars : {0, 1, 100, 500}]],
     team_size          : {1},
     hourly_rate        : {10000},
     development_months : {6},
     market_multiplier  : {100}]

CallSamples ==
    [method : {"cost_based"}, inputs : CostInputSamples]
      \cup [method : {"market_based"}, inputs : MarketInputSamples]
      \cup [method : {"market_based"}, inputs : MarketInputSamples,
            comparable_data : ComparableSamples]
      \cup [method : {"scorecard"}, inputs : ScorecardInputSamples]
      \cup [method : {"income_based"}, inputs : IncomeInputSamples]
      \cup [method : {"income_based"}, inputs : IncomeInputSamples,
            annual_revenue : {-1000, 0, 1, 2, 10, 1000, 50000000}]

\* The method returns what it calculated.
Return(results) ==
    /\ val_pc = "called"
    /\ val_result' \in results
    /\ val_pc' = "returned"
    /\ UNCHANGED val_call
    /\ UNCHANGED outside_valuation

CalculateCostBased ==
    /\ val_call.method = "cost_based"
    /\ Return({calculate_cost_based(val_call.inputs)})

\* if not comparable_data: comparable_data = []
CalculateMarketBased ==
    /\ val_call.method = "market_based"
    /\ Return({calculate_market_based(val_call.inputs,
                                      Get(val_call, "comparable_data", <<>>))})

CalculateScorecard ==
    /\ val_call.method = "scorecard"
    /\ Return(calculate_scorecard(val_call.inputs))

CalculateIncomeBased ==
    /\ val_call.method = "income_based"
    /\ Return(calculate_income_based(val_call.inputs, Get(val_call, "annual_revenue", 0)))

\* One of the four methods is called.
InitValuation ==
    /\ val_pc = "called"
    /\ val_call \in CallSamples
    /\ val_result = None
    /\ PackageIdle
    /\ UnicornIdle
    /\ InvokeIdle
    /\ GitHubIdle
    /\ CodebaseIdle

NextValuation ==
    \/ CalculateCostBased
    \/ CalculateMarketBased
    \/ CalculateScorecard
    \/ CalculateIncomeBased

\* One call of calculate_cost_based, calculate_market_based,
\* calculate_scorecard or calculate_income_based.
SpecValuation == InitValuation /\ [][NextValuation]_vars

(***************************************************************************)
(* github_analysis.py: GitHubAnalysisTool.analyze_repository               *)
(*                                                                         *)
(* The four scores are kept in units of 1 / GhScoreDen: health, activity   *)
(* and community are sums of tenths and overall_score is their sum         *)
(* divided by 3.  weekly_avg is total / 8 and is kept in eighths.          *)
(***************************************************************************)

GhScoreDen == 30

\* n tenths, in units of 1 / GhScoreDen
Tenths(n) == n * (GhScoreDen \div 10)

\* What GitHub holds for the repository: the JSON of /repos/{owner}/{repo},
\* the weeks of /stats/commit_activity and the list of /contributors.  In
\* null_counts are the keys whose JSON value is null instead of a number.
RepoJsonSamples ==
    [full_name         : {<<"mcpmessenger", "slashmcp">>},
     description       : {NoneStr, "MCP client"},
     has_wiki          : BOOLEAN,
     license           : {None, [name |-> "MIT"]},
     open_issues_count : {0, 50},
     stargazers_count  : {0, 10, 100, 1000},
     forks_count       : {0, 1, 10, 100},
     null_counts       : {{}}]
    \cup
    {[full_name |-> <<"mcpmessenger", "slashmcp">>, null_counts |-> {"open_issues_count"}]}

Week(total) == [total |-> total, week |-> 1700000000]

\* No week; one week; nine weeks, of which the first is older than the last
\* eight (and one of which lacks its total).
CommitActivitySamples ==
    { <<>>,
      <<Week(8)>>,
      <<Week(500), Week(0), Week(0), Week(0), Week(0), Week(0), Week(0), Week(0), Week(0)>>,
      <<Week(500), Week(1), [week |-> 1700000000], Week(0), Week(0), Week(0), Week(0),
        Week(0), Week(0)>>,
      <<Week(0), Week(1), Week(1), Week(1), Week(1), Week(1), Week(1), Week(1), Week(0)>>,
      <<Week(0), Week(5), Week(5), Week(5), Week(5), Week(5), Week(5), Week(5), Week(4)>>,
      <<Week(0), Week(5), Week(5), Week(5), Week(5), Week(5), Week(5), Week(5), Week(5)>>,
      <<Week(0), Week(10), Week(10), Week(10), Week(10), Week(10), Week(10), Week(10), Week(9)>>,
      <<Week(0), Week(10), Week(10), Week(10), Week(10), Week(10), Week(10), Week(10), Week(10)>>,
      <<Week(0), Week(15), Week(15), Week(15), Week(15), Week(15), Week(15), Week(15), Week(15)>> }

ContributorCounts == {0, 1, 10, 50}

\* The list of n contributors.
Contributors(n) == [i \in 1..n |-> [login |-> i]]

GitHubSamples ==
    [repo            : RepoJsonSamples,
     commit_activity : CommitActivitySamples,
     contributors    : {Contributors(n) : n \in ContributorCounts}]

\* What requests.get can do for a resource: raise, answer another status
\* than 200, or answer 200 with the resource.
Answers(resource) ==
    {Raised, [status_code |-> 404], [status_code |-> 200, json |-> resource]}

\* _fetch_repo_data
FetchedRepoData(response) ==
    IF response = Raised THEN EmptyDict
    ELSE IF response.status_code = 200 THEN response.json ELSE EmptyDict

\* sum(week.get("total", 0) for week in weeks)
RECURSIVE SumTotals(_)
SumTotals(weeks) ==
    IF weeks = <<>> THEN 0
    ELSE Get(Head(weeks), "total", 0) + SumTotals(Tail(weeks))

\* data[-8:]
LastEight(data) == SubSeq(data, Max(1, Len(data) - 7), Len(data))

NoCommitActivity == [total |-> 0, weekly_avg |-> 0, last_commit |-> NoneStr]

\* _fetch_commit_activity; weekly_avg = total / 8, in eighths.
FetchedCommitActivity(response) ==
    IF response = Raised THEN NoCommitActivity
    ELSE IF response.status_code = 200 /\ response.json # <<>>
    THEN LET data  == response.json
             total == SumTotals(LastEight(data))
         IN  [total       |-> total,
              weekly_avg  |-> total,
              last_commit |-> Get(data[Len(data)], "week", NoneStr)]
    ELSE NoCommitActivity

\* _fetch_contributor_stats
FetchedContributorStats(response) ==
    IF response = Raised THEN <<>>
    ELSE IF response.status_code = 200 THEN response.json ELSE <<>>

\* repo_data.get(key, default) for a count
Count(repo_data, key, default) == Get(repo_data, key, default)

\* _calculate_health_score without min(score, 1.0) and with 0.3 a criterion.
HealthScoreUncapped(repo_data, commit_activity) ==
    Tenths(3) * Cardinality({ criterion \in 1..5 :
        \/ criterion = 1 /\ Get(repo_data, "description", NoneStr) # NoneStr
        \/ criterion = 2 /\ (Get(repo_data, "has_wiki", FALSE)
                               \/ Get(repo_data, "description", NoneStr) # NoneStr)
        \/ criterion = 3 /\ Get(commit_activity, "weekly_avg", 0) > 0
        \/ criterion = 4 /\ Count(repo_data, "open_issues_count", 0) < 50
        \/ criterion = 5 /\ Get(repo_data, "license", None) # None })

\* _calculate_health_score: 0.2 for each of five criteria.
HealthScore(repo_data, commit_activity) ==
    LET documented == IF Get(repo_data, "description", NoneStr) # NoneStr
                      THEN Tenths(2) ELSE 0
        readme     == IF Get(repo_data, "has_wiki", FALSE)
                           \/ Get(repo_data, "description", NoneStr) # NoneStr
                      THEN Tenths(2) ELSE 0
        maintained == IF Get(commit_activity, "weekly_avg", 0) > 0 THEN Tenths(2) ELSE 0
        few_issues == IF Count(repo_data, "open_issues_count", 0) < 50 THEN Tenths(2) ELSE 0
        licensed   == IF Get(repo_data, "license", None) # None THEN Tenths(2) ELSE 0
    IN  Min(documented + readme + maintained + few_issues + licensed, Tenths(10))

\* _calculate_activity_score with the thresholds 10, 5 and 1 in eighths
\* taken for whole commits.
ActivityScoreWholeCommits(commit_activity) ==
    LET weekly_avg == Get(commit_activity, "weekly_avg", 0)
    IN  IF weekly_avg >= 10 THEN Tenths(10)
        ELSE IF weekly_avg >= 5 THEN Tenths(8)
        ELSE IF weekly_avg >= 1 THEN Tenths(6)
        ELSE IF weekly_avg > 0 THEN Tenths(4)
        ELSE 0

\* _calculate_activity_score: weekly_avg >= 10, >= 5, >= 1, > 0.
ActivityScore(commit_activity) ==
    LET weekly_avg == Get(commit_activity, "weekly_avg", 0)
    IN  IF weekly_avg >= 10 * 8 THEN Tenths(10)
        ELSE IF weekly_avg >= 5 * 8 THEN Tenths(8)
        ELSE IF weekly_avg >= 1 * 8 THEN Tenths(6)
        ELSE IF weekly_avg > 0 THEN Tenths(4)
        ELSE 0

\* _calculate_community_score
CommunityScore(repo_data, contributor_stats) ==
    LET stars        == Count(repo_data, "stargazers_count", 0)
        forks        == Count(repo_data, "forks_count", 0)
        contributors == Len(contributor_stats)
        star_part == IF stars >= 1000 THEN Tenths(3)
                     ELSE IF stars >= 100 THEN Tenths(2)
                     ELSE IF stars >= 10 THEN Tenths(1) ELSE 0
        fork_part == IF forks >= 100 THEN Tenths(3)
                     ELSE IF forks >= 10 THEN Tenths(2)
                     ELSE IF forks >= 1 THEN Tenths(1) ELSE 0
        contributor_part == IF contributors >= 50 THEN Tenths(4)
                            ELSE IF contributors >= 10 THEN Tenths(3)
                            ELSE IF contributors >= 1 THEN Tenths(2) ELSE 0
    IN  Min(star_part + fork_part + contributor_part, Tenths(10))

\* The body of analyze_repository raises: a count that is null is compared
\* with a number.
BodyRaises(repo_data) == "open_issues_count" \in Get(repo_data, "null_counts", {})

\* AnalyzedRecord without its development section.
AnalyzedRecordNoDevelopment(repo_data, commit_activity, contributor_stats) ==
    [basic_info |-> [name |-> Get(repo_data, "full_name", <<>>)],
     metrics    |-> [stars |-> Count(repo_data, "stargazers_count", 0)],
     scores     |-> [health_score |-> HealthScore(repo_data, commit_activity)]]

\* The record analyze_repository builds from what it fetched.
AnalyzedRecord(repo_data, commit_activity, contributor_stats) ==
    LET health_score    == HealthScore(repo_data, commit_activity)
        activity_score  == ActivityScore(commit_activity)
        community_score == CommunityScore(repo_data, contributor_stats)
    IN  [basic_info |->
             [name             |-> Get(repo_data, "full_name", <<>>),
              description      |-> Get(repo_data, "description", NoneStr),
              primary_language |-> Get(repo_data, "language", NoneStr),
              created_at       |-> Get(repo_data, "created_at", NoneStr),
              updated_at       |-> Get(repo_data, "updated_at", NoneStr)],
         metrics |->
             [stars       |-> Count(repo_data, "stargazers_count", 0),
              forks       |-> Count(repo_data, "forks_count", 0),
              watchers    |-> Count(repo_data, "watchers_count", 0),
              open_issues |-> Count(repo_data, "open_issues_count", 0)],
         scores |->
             [health_score    |-> health_score,
              activity_score  |-> activity_score,
              community_score |-> community_score,
              \* (health + activity + community) / 3
              overall_score   |-> (health_score + activity_score + community_score) \div 3],
         development |->
             [total_commits    |-> Get(commit_activity, "total", 0),
              contributors     |-> Len(contributor_stats),
              last_commit_date |-> Get(commit_activity, "last_commit", NoneStr),
              commit_frequency |-> Get(commit_activity, "weekly_avg", 0)]]

\* What the body returns after the three fetches: the record, or the error
\* record of `except Exception`.
AnalysisOutcome(repo_data, commit_activity, contributor_stats) ==
    IF BodyRaises(repo_data)
    THEN [error |-> "'<' not supported between instances of 'NoneType' and 'int'",
          status |-> "failed"]
    ELSE AnalyzedRecord(repo_data, commit_activity, contributor_stats)

\* analyze_repository is entered and fetches the repository: without it the
\* call returns the error record.
FetchRepoData ==
    /\ gh_pc = "fetch_repo_data"
    /\ \E response \in Answers(gh_github.repo) :
          LET repo_data == FetchedRepoData(response)
          IN  /\ gh_fetched' = [gh_fetched EXCEPT !.repo_data = repo_data]
              /\ IF repo_data = EmptyDict
                 THEN /\ gh_result' = [error |-> "Repository not found", status |-> "failed"]
                      /\ gh_pc' = "done"
                 ELSE /\ gh_result' = gh_result
                      /\ gh_pc' = "fetch_commit_activity"
    /\ UNCHANGED gh_github
    /\ UNCHANGED outside_github

FetchCommitActivity ==
    /\ gh_pc = "fetch_commit_activity"
    /\ \E response \in Answers(gh_github.commit_activity) :
          gh_fetched' = [gh_fetched EXCEPT !.commit_activity = FetchedCommitActivity(response)]
    /\ gh_pc' = "fetch_contributor_stats"
    /\ UNCHANGED <<gh_github, gh_result>>
    /\ UNCHANGED outside_github

FetchContributorStats ==
    /\ gh_pc = "fetch_contributor_stats"
    /\ \E response \in Answers(gh_github.contributors) :
          gh_fetched' = [gh_fetched EXCEPT !.contributor_stats = FetchedContributorStats(response)]
    /\ gh_pc' = "calculate"
    /\ UNCHANGED <<gh_github, gh_result>>
    /\ UNCHANGED outside_github

\* The scores are calculated and the call returns.
CalculateMetrics ==
    /\ gh_pc = "calculate"
    /\ gh_result' = AnalysisOutcome(gh_fetched.repo_data, gh_fetched.commit_activity,
                                    gh_fetched.contributor_stats)
    /\ gh_pc' = "done"
    /\ UNCHANGED <<gh_github, gh_fetched>>
    /\ UNCHANGED outside_github

\* A repository is to be analyzed; nothing is fetched yet.
InitGitHub ==
    /\ gh_pc = "fetch_repo_data"
    /\ gh_github \in GitHubSamples
    /\ gh_fetched = [repo_data |-> None, commit_activity |-> None, contributor_stats |-> None]
    /\ gh_result = None
    /\ PackageIdle
    /\ UnicornIdle
    /\ InvokeIdle
    /\ ValuationIdle
    /\ CodebaseIdle

NextGitHub ==
    \/ FetchRepoData
    \/ FetchCommitActivity
    \/ FetchContributorStats
    \/ CalculateMetrics

\* One call of analyze_repository.
SpecGitHub == InitGitHub /\ [][NextGitHub]_vars

(***************************************************************************)
(* main.py: invoke_tool                                                    *)
(*                                                                         *)
(* A text that the handler splits is modelled by its pieces: a repository  *)
(* name is the sequence of its parts between slashes and a query is the    *)
(* sequence of its words, so the empty string (with None, equally falsy)   *)
(* is <<>>.  f"{owner}/{repo}" is the pair <<owner, repo>>.  The four      *)
(* collaborators are called one step at a time; what the three that reach  *)
(* the network answer is chosen among the records they can return and an   *)
(* exception.                                                              *)
(***************************************************************************)

ToolNames ==
    {"analyze_github_repository", "calculate_valuation", "compare_with_market",
     "analyze_codebase", "get_package_stats", "unicorn_hunter", "agent_executor"}

ValuationMethods ==
    {"cost_based", "market_based", "scorecard", "income_based", "unicorn_hunter"}

\* raise HTTPException(status_code, detail)
HTTPException(status_code, detail) ==
    [raised |-> "HTTPException", status_code |-> status_code, detail |-> detail]

\* The dictionary a handler returns; text stands for json.dumps(result).
Response(result, isError) ==
    [content |-> [type |-> "text", text |-> result], isError |-> isError]

\* ErrorResponse without the outer `except Exception`: the exception leaves
\* the handler.
ErrorResponseUncaught(e) == [raised |-> e]

\* The dictionary the outer `except Exception` returns.
ErrorResponse(e) ==
    [content |-> [type |-> "text", text |-> <<"Error: ", e>>], isError |-> TRUE]

\* The words of the queries, the words' lower case, and the keywords that
\* occur inside a lower-case word.
Lower(word) ==
    CASE word = "Unicorn" -> "unicorn"
      [] word = "MCPMessenger/SlashMCP" -> "mcpmessenger/slashmcp"
      [] OTHER -> word

KeywordsIn(word) ==
    CASE word \in {"unicorn", "valuation", "value", "worth", "price", "deep",
                   "code", "cost", "market", "income", "revenue"} -> {word}
      [] word = "codebase"     -> {"codebase", "code"}
      [] word = "cost-based"   -> {"cost-based", "cost"}
      [] word = "market-based" -> {"market-based", "market"}
      [] OTHER -> {}

\* query.lower()
LowerQuery(query) == [i \in DOMAIN query |-> Lower(query[i])]

\* keyword in query_lower
Contains(query_lower, keyword) ==
    \E i \in DOMAIN query_lower : keyword \in KeywordsIn(query_lower[i])

\* What the owner/repo pattern matches in a word.
RepoIn(word) ==
    IF word = "mcpmessenger/slashmcp" THEN <<"mcpmessenger", "slashmcp">> ELSE <<>>

\* extract_repo_from_query: the first match in the query, <<>> for None.
RECURSIVE extract_repo_from_query(_)
extract_repo_from_query(query) ==
    IF query = <<>> THEN <<>>
    ELSE IF RepoIn(Head(query)) # <<>> THEN RepoIn(Head(query))
    ELSE extract_repo_from_query(Tail(query))

\* The repository records a successful analyze_repository hands on: an empty
\* repository and an active one.
InvokeRepoSamples ==
    { [basic_info  |-> [name |-> <<"mcpmessenger", "slashmcp">>],
       metrics     |-> [stars |-> 0, forks |-> 0, watchers |-> 0],
       scores      |-> [overall_score |-> 0, health_score |-> 0, activity_score |-> 0],
       development |-> [contributors |-> 0, total_commits |-> 0, commit_frequency |-> 0]],
      [basic_info  |-> [name |-> <<"mcpmessenger", "slashmcp">>],
       metrics     |-> [stars |-> 250, forks |-> 50, watchers |-> 30],
       scores      |-> [overall_score |-> ScoreDen, health_score |-> ScoreDen,
                        activity_score |-> ScoreDen],
       development |-> [contributors |-> 15, total_commits |-> 500, commit_frequency |-> 85]] }

ActiveRepo == CHOOSE r \in InvokeRepoSamples : r.metrics.stars = 250

Queries ==
    { <<>>,
      <<"analyze">>,
      <<"analyze", "mcpmessenger/slashmcp">>,
      <<"Unicorn", "score", "MCPMessenger/SlashMCP">>,
      <<"unicorn", "valuation", "mcpmessenger/slashmcp">>,
      <<"deep", "unicorn", "mcpmessenger/slashmcp">>,
      <<"unicorn", "codebase", "mcpmessenger/slashmcp">>,
      <<"valuation", "mcpmessenger/slashmcp">>,
      <<"cost-based", "value", "mcpmessenger/slashmcp">>,
      <<"market", "worth", "mcpmessenger/slashmcp">>,
      <<"revenue", "price", "mcpmessenger/slashmcp">>,
      <<"cost", "mcpmessenger/slashmcp">> }

OwnerRepoArguments ==
    [owner : {"", "mcpmessenger"}] \cup [repo : {"", "slashmcp"}]
      \cup [owner : {"", "mcpmessenger"}, repo : {"", "slashmcp"}]
      \cup {[owner |-> "mcpmessenger", repo |-> "slashmcp", package_name |-> "slash-mcp"]}

ValuationArguments ==
    [repo_data : {EmptyDict, ActiveRepo}]
      \cup [repo_data : {ActiveRepo}, method : ValuationMethods \cup {"no_such_method"}]
      \cup {[method |-> "cost_based"],
            [repo_data |-> ActiveRepo, method |-> "cost_based", team_size |-> 2]}

MarketArguments ==
    {[category |-> "ai"],
     [repo_metrics |-> EmptyDict],
     [repo_metrics |-> [stars |-> 250]],
     [repo_metrics |-> [stars |-> 250], category |-> "ai"]}

CodebaseArguments ==
    {[analysis_depth |-> "deep"]}
      \cup [repo_data : {EmptyDict, [basic_info |-> EmptyDict]}]
      \cup [repo_data : [basic_info : [name : {<<>>, <<"slashmcp">>,
                                               <<"mcpmessenger", "slashmcp">>,
                                               <<"a", "b", "c">>}]]]

UnicornArguments ==
    {[codebase_analysis |-> BestAnalysis("success")]}
      \cup [repo_data : {EmptyDict, ActiveRepo}]
      \cup [repo_data : {EmptyDict, ActiveRepo},
            codebase_analysis : {EmptyDict, BestAnalysis("success"), BestAnalysis("failed")}]
      \cup [repo_data : {ActiveRepo},
            codebase_analysis : {BestAnalysis("success")},
            include_codebase_analysis : {FALSE}]

AgentArguments == [input : Queries]

\* The `arguments` a request can carry for a tool: null, {}, and the tool's own.
ArgumentSamples(tool_name) ==
    {None, EmptyDict} \cup
    CASE tool_name \in {"analyze_github_repository", "get_package_stats"} -> OwnerRepoArguments
      [] tool_name = "calculate_valuation" -> ValuationArguments
      [] tool_name = "compare_with_market" -> MarketArguments
      [] tool_name = "analyze_codebase"    -> CodebaseArguments
      [] tool_name = "unicorn_hunter"      -> UnicornArguments
      [] tool_name = "agent_executor"      -> AgentArguments
      [] OTHER -> {}

\* The request bodies: without a tool, with an unknown tool, with a tool and
\* no arguments, with a tool and arguments.
RequestSamples ==
    {EmptyDict,
     [tool |-> ""],
     [tool_name |-> "agent_executor"],
     [tool_input |-> <<"analyze">>],
     [input |-> <<"analyze">>],
     [arguments |-> [owner |-> "mcpmessenger", repo |-> "slashmcp"]]}
      \cup [tool : ToolNames \cup {"no_such_tool"}]
      \cup [tool : {"no_such_tool"}, arguments : {None, EmptyDict}]
      \cup UNION { [tool : {t}, arguments : ArgumentSamples(t)] : t \in ToolNames }

\* The handler's local variables; a name not yet bound is None.
NoLocals ==
    [tool_name         |-> NoneStr,
     arguments         |-> EmptyDict,
     owner             |-> NoneStr,
     repo              |-> NoneStr,
     query_lower       |-> <<>>,
     method            |-> NoneStr,
     repo_data         |-> None,
     package_stats     |-> None,
     codebase_analysis |-> None,
     result            |-> None]

\* The two ways a step of the handler ends: the call is over (a response is
\* returned or an exception leaves the handler), or a collaborator is called.
Finish(response) == [pc |-> "done", locals |-> NoLocals, response |-> response]
Call(collaborator, locals) == [pc |-> collaborator, locals |-> locals, response |-> None]

\* if not tool_name: the three HTTP 400 errors.
MissingTool(req) ==
    IF "tool_name" \in DOMAIN req
        THEN HTTPException(400, "Invalid request format. Use 'tool' instead of 'tool_name'.")
    ELSE IF "tool_input" \in DOMAIN req \/ "input" \in DOMAIN req
        THEN HTTPException(400, "Invalid request format. Use 'tool' and 'arguments' fields.")
    ELSE HTTPException(400, "Missing 'tool' field.")

\* not value, for a text or None, and for a dictionary or None
FalsyStr(value)  == value \in {NoneStr, ""}
FalsyDict(value) == value \in {None, EmptyDict}

\* tool_name == "analyze_github_repository", up to the call of the fetcher.
HandleAnalyzeGithubRepository(locals) ==
    LET owner == Get(locals.arguments, "owner", NoneStr)
        repo  == Get(locals.arguments, "repo", NoneStr)
    IN  IF FalsyStr(owner) \/ FalsyStr(repo)
        THEN Finish(HTTPException(400, "Missing owner or repo"))
        ELSE Call("analyze_repository", [locals EXCEPT !.owner = owner, !.repo = repo])

\* tool_name == "calculate_valuation", up to the call of the calculator.
HandleCalculateValuation(locals) ==
    LET repo_data == Get(locals.arguments, "repo_data", None)
        method    == Get(locals.arguments, "method", "scorecard")
    IN  IF FalsyDict(repo_data)
            THEN Finish(HTTPException(400, "Missing repo_data"))
        ELSE IF method \notin ValuationMethods
            THEN Finish(HTTPException(400, "Unknown valuation method"))
        ELSE Call("valuation_calculator",
                  [locals EXCEPT !.repo_data = repo_data, !.method = method])

\* tool_name == "compare_with_market": the placeholder comparison.
HandleCompareWithMarket(locals) ==
    LET repo_metrics == Get(locals.arguments, "repo_metrics", None)
        category     == Get(locals.arguments, "category", "general")
    IN  IF FalsyDict(repo_metrics)
        THEN Finish(HTTPException(400, "Missing repo_metrics"))
        ELSE Finish(Response(
                 [category          |-> category,
                  repo_metrics      |-> repo_metrics,
                  market_benchmarks |-> [average_stars |-> 150, average_forks |-> 30,
                                         average_contributors |-> 5,
                                         median_valuation |-> 50000],
                  comparison        |-> [stars_percentile |-> 75, forks_percentile |-> 60,
                                         activity_percentile |-> 70]],
                 FALSE))

\* tool_name == "analyze_codebase", up to the call of the estimator.
HandleAnalyzeCodebase(locals) ==
    LET repo_data  == Get(locals.arguments, "repo_data", None)
        basic_info == Get(repo_data, "basic_info", EmptyDict)
        repo_name  == Get(basic_info, "name", <<>>)
    IN  IF FalsyDict(repo_data)
            THEN Finish(HTTPException(400, "Missing repo_data"))
        ELSE IF repo_name = <<>>
            THEN Finish(HTTPException(400, "Invalid repo_data: missing basic_info.name"))
        ELSE IF Len(repo_name) # 2
            THEN Finish(HTTPException(400, "Invalid repository name format"))
        ELSE Call("analyze_codebase",
                  [locals EXCEPT !.owner = repo_name[1], !.repo = repo_name[2]])

\* tool_name == "get_package_stats", up to the call of the lookup.
HandleGetPackageStats(locals) ==
    LET owner == Get(locals.arguments, "owner", NoneStr)
        repo  == Get(locals.arguments, "repo", NoneStr)
    IN  IF FalsyStr(owner) \/ FalsyStr(repo)
        THEN Finish(HTTPException(400, "Missing owner or repo"))
        ELSE Call("get_package_stats", [locals EXCEPT !.owner = owner, !.repo = repo])

\* tool_name == "unicorn_hunter", up to the call of the calculator: the
\* codebase analysis is passed on when it is given and not switched off.
HandleUnicornHunter(locals) ==
    LET repo_data         == Get(locals.arguments, "repo_data", None)
        codebase_analysis == Get(locals.arguments, "codebase_analysis", None)
        include_codebase  == Get(locals.arguments, "include_codebase_analysis", TRUE)
    IN  IF FalsyDict(repo_data)
        THEN Finish(HTTPException(400, "Missing repo_data"))
        ELSE Call("valuation_calculator",
                  [locals EXCEPT !.repo_data = repo_data,
                                 !.method = "unicorn_hunter",
                                 !.codebase_analysis =
                                     IF ~FalsyDict(codebase_analysis) /\ include_codebase
                                     THEN codebase_analysis ELSE None])

\* tool_name == "agent_executor", up to the call of the fetcher.
HandleAgentExecutor(locals) ==
    LET user_input == Get(locals.arguments, "input", <<>>)
        repo_info  == extract_repo_from_query(LowerQuery(user_input))
    IN  IF user_input = <<>>
            THEN Finish(HTTPException(400, "Missing input query"))
        ELSE IF repo_info = <<>>
            THEN Finish(Response(
                     [error |-> "Could not extract repository information from query",
                      hint  |-> "Please provide repository in format 'owner/repo'",
                      example_queries |-> <<"what's the unicorn score for langchain-ai/langchain?",
                                            "analyze mcpmessenger/slashmcp">>],
                     TRUE))
        ELSE Call("analyze_repository",
                  [locals EXCEPT !.owner = repo_info[1], !.repo = repo_info[2],
                                 !.query_lower = LowerQuery(user_input)])

\* invoke_tool, up to the first call of a collaborator.  A null `arguments`
\* has no .get: the AttributeError is caught by the outer `except Exception`.
Dispatch(req) ==
    LET tool_name == Get(req, "tool", NoneStr)
        arguments == Get(req, "arguments", EmptyDict)
        locals    == [NoLocals EXCEPT !.tool_name = tool_name, !.arguments = arguments]
    IN  IF FalsyStr(tool_name)
            THEN Finish(MissingTool(req))
        ELSE IF tool_name \notin ToolNames
            THEN Finish(HTTPException(404, "Tool not found"))
        ELSE IF arguments = None
            THEN Finish(ErrorResponse("'NoneType' object has no attribute 'get'"))
        ELSE CASE tool_name = "analyze_github_repository" -> HandleAnalyzeGithubRepository(locals)
               [] tool_name = "calculate_valuation" -> HandleCalculateValuation(locals)
               [] tool_name = "compare_with_market" -> HandleCompareWithMarket(locals)
               [] tool_name = "analyze_codebase"    -> HandleAnalyzeCodebase(locals)
               [] tool_name = "get_package_stats"   -> HandleGetPackageStats(locals)
               [] tool_name = "unicorn_hunter"      -> HandleUnicornHunter(locals)
               [] tool_name = "agent_executor"      -> HandleAgentExecutor(locals)

\* What the collaborators can answer.
RepositoryOutcomes ==
    {Raised, [error |-> "Repository not found", status |-> "failed"]}
      \cup InvokeRepoSamples

PackageOutcomes(owner, repo, package_name) ==
    {Raised, NotFound(owner, repo)} \cup
    { Found(owner, repo, "npm", answer) :
        answer \in { a \in NpmAnswers(repo, package_name) \ {None} :
                       a.weekly_downloads \in {0, 9999} } }

CodebaseOutcomes ==
    {Raised,
     [error |-> "Repository not found", status |-> "failed"],
     [status |-> "success"],
     BestAnalysis("success")}

\* any(keyword in query_lower for keyword in [...]): the other three
\* keywords of the first list begin with "unicorn".
IsUnicornRequest(query_lower) == Contains(query_lower, "unicorn")

IsValuationRequest(query_lower) ==
    \E keyword \in {"valuation", "value", "worth", "price"} : Contains(query_lower, keyword)

MethodOf(query_lower) ==
    IF Contains(query_lower, "cost") \/ Contains(query_lower, "cost-based")
        THEN "cost_based"
    ELSE IF Contains(query_lower, "market") \/ Contains(query_lower, "market-based")
        THEN "market_based"
    ELSE IF Contains(query_lower, "income") \/ Contains(query_lower, "revenue")
        THEN "income_based"
    ELSE "scorecard"

PerformCodebaseAnalysis(query_lower) ==
    Contains(query_lower, "deep") \/ Contains(query_lower, "codebase")
      \/ Contains(query_lower, "code")

\* AfterAnalyzeRepository that looks for the valuation keywords before
\* "unicorn".
AfterAnalyzeRepositoryValuationFirst(locals, outcome) ==
    IF locals.tool_name = "analyze_github_repository"
    THEN IF outcome = Raised
         THEN Finish(ErrorResponse("Exception"))
         ELSE Finish(Response(outcome, FALSE))
    ELSE IF outcome = Raised
         THEN Finish(Response([error      |-> "Failed to analyze repository",
                               repository |-> <<locals.owner, locals.repo>>], TRUE))
    ELSE IF "error" \in DOMAIN outcome
         THEN Finish(Response(outcome, TRUE))
    ELSE LET result == [repository |-> <<locals.owner, locals.repo>>, analysis |-> outcome]
             bound  == [locals EXCEPT !.repo_data = outcome, !.result = result]
         IN  IF IsValuationRequest(locals.query_lower)
                 THEN Call("valuation_calculator",
                           [bound EXCEPT !.method = MethodOf(locals.query_lower)])
             ELSE IF IsUnicornRequest(locals.query_lower)
                 THEN Call("get_package_stats", bound)
             ELSE Finish(Response(
                      [suggestion |-> "Repository analyzed."] @@ result, FALSE))

\* The handler after github_tool.analyze_repository answered.
AfterAnalyzeRepository(locals, outcome) ==
    IF locals.tool_name = "analyze_github_repository"
    THEN IF outcome = Raised
         THEN Finish(ErrorResponse("Exception"))
         ELSE Finish(Response(outcome, FALSE))
    ELSE IF outcome = Raised
         THEN Finish(Response([error      |-> "Failed to analyze repository",
                               repository |-> <<locals.owner, locals.repo>>], TRUE))
    ELSE IF "error" \in DOMAIN outcome
         THEN Finish(Response(outcome, TRUE))
    ELSE LET result == [repository |-> <<locals.owner, locals.repo>>, analysis |-> outcome]
             bound  == [locals EXCEPT !.repo_data = outcome, !.result = result]
         IN  IF IsUnicornRequest(locals.query_lower)
                 THEN Call("get_package_stats", bound)
             ELSE IF IsValuationRequest(locals.query_lower)
                 THEN Call("valuation_calculator",
                           [bound EXCEPT !.method = MethodOf(locals.query_lower)])
             ELSE Finish(Response(
                      [suggestion |-> "Repository analyzed."] @@ result, FALSE))

\* The handler after package_stats_tool.get_package_stats answered;
\* adoption_score is round(calculate_adoption_score(package_stats), 1).
AfterGetPackageStats(locals, outcome, adoption_score) ==
    IF locals.tool_name = "get_package_stats"
    THEN IF outcome = Raised
         THEN Finish(ErrorResponse("Exception"))
         ELSE Finish(Response(outcome, outcome.status # "success"))
    ELSE LET succeeded == outcome # Raised /\ outcome.status = "success"
             bound ==
                 [locals EXCEPT
                    !.package_stats = IF outcome = Raised THEN None ELSE outcome,
                    !.result = IF succeeded
                               THEN [package_stats            |-> outcome,
                                     ecosystem_adoption_score |-> adoption_score] @@ @
                               ELSE @]
         IN  IF PerformCodebaseAnalysis(locals.query_lower)
             THEN Call("analyze_codebase", bound)
             ELSE Call("valuation_calculator", [bound EXCEPT !.method = "unicorn_hunter"])

\* AfterAnalyzeCodebase without agent_executor's try/except around the call.
AfterAnalyzeCodebaseUncaught(locals, outcome) ==
    IF outcome = Raised
    THEN Finish(ErrorResponse("Exception"))
    ELSE IF locals.tool_name = "analyze_codebase"
    THEN Finish(Response(outcome, outcome.status = "failed"))
    ELSE Call("valuation_calculator",
              [locals EXCEPT !.method = "unicorn_hunter", !.codebase_analysis = outcome])

\* The handler after codebase_tool.analyze_codebase answered.
AfterAnalyzeCodebase(locals, outcome) ==
    IF locals.tool_name = "analyze_codebase"
    THEN IF outcome = Raised
         THEN Finish(ErrorResponse("Exception"))
         ELSE Finish(Response(outcome, outcome.status = "failed"))
    ELSE LET succeeded == outcome # Raised /\ outcome.status = "success"
         IN  Call("valuation_calculator",
                  [locals EXCEPT
                     !.method = "unicorn_hunter",
                     !.codebase_analysis = IF outcome = Raised THEN None ELSE outcome,
                     !.result = IF succeeded
                                THEN [codebase_analysis |-> outcome] @@ @
                                ELSE @])

\* The codebase_analysis argument of agent_executor's call of
\* calculate_unicorn_hunter: the analysis when it succeeded, else none.
AgentAnalysisArgument(locals) ==
    IF locals.codebase_analysis # None
         /\ Get(locals.codebase_analysis, "status", NoneStr) = "success"
    THEN locals.codebase_analysis
    ELSE None

\* The codebase_analysis argument of the handler's call of the calculator.
AnalysisArgument(locals) ==
    IF locals.tool_name = "unicorn_hunter" THEN locals.codebase_analysis
    ELSE IF locals.tool_name = "agent_executor" THEN AgentAnalysisArgument(locals)
    ELSE None

\* What the called method of valuation_calculator can return; the handler
\* wraps the two amounts (here in cents) into a dictionary.
CalculatorResults(locals) ==
    LET inputs == ValuationInputs(locals.repo_data, locals.arguments)
    IN  CASE locals.method = "cost_based" ->
                 {[method    |-> locals.method,
                   valuation |-> calculate_cost_based(inputs),
                   currency  |-> "USD"]}
          [] locals.method = "market_based" ->
                 {[method    |-> locals.method,
                   valuation |-> calculate_market_based(inputs, <<>>) * 10,
                   currency  |-> "USD"]}
          [] locals.method = "scorecard"    -> calculate_scorecard(inputs)
          [] locals.method = "income_based" -> calculate_income_based(inputs, 0)
          [] locals.method = "unicorn_hunter" ->
                 calculate_unicorn_hunter(inputs, AnalysisArgument(locals))

\* The handler after valuation_calculator answered.
AfterCalculator(locals, outcome) ==
    IF locals.tool_name # "agent_executor"
    THEN Finish(Response(outcome, FALSE))
    ELSE IF locals.method # "unicorn_hunter"
    THEN Finish(Response([valuation |-> outcome] @@ locals.result, FALSE))
    ELSE LET package_stats == locals.package_stats
             with_package  == package_stats # None /\ package_stats.status = "success"
             adoption      == Get(locals.result, "ecosystem_adoption_score", 0)
             unicorn_result ==
                 IF with_package
                 THEN [ecosystem_adoption |->
                          [package_manager |-> Get(package_stats, "package_manager", "unknown"),
                           adoption_score  |-> adoption,
                           package_name    |-> Get(package_stats, "package_name", NoneStr)]]
                      @@ outcome
                 ELSE outcome
             summary ==
                 IF with_package
                 THEN <<outcome.unicorn_score, outcome.tier,
                        Get(package_stats, "package_manager", "unknown"), adoption>>
                 ELSE <<outcome.unicorn_score, outcome.tier>>
         IN  Finish(Response([summary |-> summary, unicorn_hunter |-> unicorn_result]
                               @@ locals.result, FALSE))

\* One step of the handler: it goes on to `step`, after the call of a
\* collaborator when there was one.
Take(step, calls) ==
    /\ inv_pc' = step.pc
    /\ inv_locals' = step.locals
    /\ inv_response' = step.response
    /\ inv_calls' = calls
    /\ UNCHANGED inv_request
    /\ UNCHANGED outside_invoke

\* The request is received and handled up to the first call of a collaborator.
InvokeTool ==
    /\ inv_pc = "start"
    /\ Take(Dispatch(inv_request), inv_calls)

CallAnalyzeRepository ==
    /\ inv_pc = "analyze_repository"
    /\ \E outcome \in RepositoryOutcomes :
          Take(AfterAnalyzeRepository(inv_locals, outcome),
               Append(inv_calls, [collaborator |-> "github_tool", outcome |-> outcome]))

CallGetPackageStats ==
    /\ inv_pc = "get_package_stats"
    /\ \E outcome \in PackageOutcomes(inv_locals.owner, inv_locals.repo,
                                      Get(inv_locals.arguments, "package_name", NoneStr)) :
          \E adoption_score \in
                 RoundTenths(calculate_adoption_score(
                                 IF outcome = Raised THEN None ELSE outcome) * 10,
                             ScoreUnit) :
             Take(AfterGetPackageStats(inv_locals, outcome, adoption_score),
                  Append(inv_calls, [collaborator |-> "package_stats_tool",
                                     outcome      |-> outcome]))

CallAnalyzeCodebase ==
    /\ inv_pc = "analyze_codebase"
    /\ \E outcome \in CodebaseOutcomes :
          Take(AfterAnalyzeCodebase(inv_locals, outcome),
               Append(inv_calls, [collaborator |-> "codebase_tool", outcome |-> outcome]))

CallCalculator ==
    /\ inv_pc = "valuation_calculator"
    /\ \E outcome \in CalculatorResults(inv_locals) :
          Take(AfterCalculator(inv_locals, outcome),
               Append(inv_calls, [collaborator       |-> "valuation_calculator",
                                  method             |-> inv_locals.method,
                                  codebase_analysis  |-> AnalysisArgument(inv_locals),
                                  outcome            |-> outcome]))

\* A request arrives.
InitInvoke ==
    /\ inv_pc = "start"
    /\ inv_request \in RequestSamples
    /\ inv_calls = <<>>
    /\ inv_locals = NoLocals
    /\ inv_response = None
    /\ PackageIdle
    /\ UnicornIdle
    /\ GitHubIdle
    /\ ValuationIdle
    /\ CodebaseIdle

NextInvoke ==
    \/ InvokeTool
    \/ CallAnalyzeRepository
    \/ CallGetPackageStats
    \/ CallAnalyzeCodebase
    \/ CallCalculator

\* One request to /mcp/invoke.
SpecInvoke == InitInvoke /\ [][NextInvoke]_vars

\* The package lookup and its adoption score.
SpecPackage == InitPackage /\ [][NextPackage]_vars

\* One call of calculate_unicorn_hunter.
SpecUnicorn == InitUnicorn /\ [][NextUnicorn]_vars

(***************************************************************************)
(* Properties of calculate_unicorn_hunter (checked under SpecUnicorn)      *)
(***************************************************************************)

Returned == uh_result # None

\* C1: for non-negative counts and repository scores in [0,1], with or
\* without a codebase-analysis record whose fields are in their ranges,
\* the returned unicorn_score is in [0,100] (0..1000 tenths).
C1_UnicornScoreInRange ==
    Returned => uh_result.unicorn_score \in 0..1000

C6_TierStepFunction ==
    Returned =>
        LET u == uh_result.unicorn_score
            t == uh_result.tier
        IN  /\ (t = "unicorn")     <=> (u >= 900)
            /\ (t = "soaring")     <=> (u >= 750 /\ u < 900)
            /\ (t = "rising_star") <=> (u >= 600 /\ u < 750)
            /\ (t = "promising")   <=> (u >= 450 /\ u < 600)
            /\ (t = "early_stage") <=> (u >= 300 /\ u < 450)
            /\ (t = "seed_stage")  <=> (u < 300)
            /\ t \in {"unicorn", "soaring", "rising_star", "promising",
                      "early_stage", "seed_stage"}

\* C6 on a boundary: a score of exactly 90.0 is returned with the tier unicorn.
C6_Witness ==
    /\ Returned
    /\ uh_result.unicorn_score = 900
    /\ uh_result.tier = "unicorn"

\* No usable codebase analysis: no record, or a record whose status is not "success".
NoUsableAnalysis ==
    \/ uh_analysis = None
    \/ uh_analysis.status # "success"

\* C7: without a usable codebase analysis, code_quality and security_posture
\* are 0 and the unicorn score is the rounded sum of the five baseline
\* dimensions weighted 0.25, 0.20, 0.20, 0.20 and 0.15, with no other term.
C7_BaselineWeightedSum ==
    (Returned /\ NoUsableAnalysis) =>
        LET scores == uh_result.component_scores
        IN  /\ scores.code_quality = 0
            /\ scores.security_posture = 0
            /\ uh_result.unicorn_score \in
                   RoundTenths(scores.community_momentum * 25
                                 + scores.development_velocity * 20
                                 + scores.technology_quality * 20
                                 + scores.market_potential * 20
                                 + scores.network_effects * 15,
                               100)

\* C7 on a call given a "failed" record that carries every section, for a
\* repository whose five dimensions are all positive.
C7_Witness ==
    /\ Returned
    /\ uh_analysis = BestAnalysis("failed")
    /\ uh_result.component_scores.technology_quality > 0
    /\ uh_result.unicorn_score > 0

\* The values a component can take when the same repository data is scored
\* without a codebase analysis.
WithoutAnalysis(key) ==
    { scores[key] : scores \in ComponentScores(uh_inputs.repo_data, None) }

\* C8 as claimed: with a successful codebase analysis, community_momentum,
\* development_velocity, technology_quality, market_potential and
\* network_effects have the values they have without one.
C8_OtherComponentsUnchanged ==
    (Returned /\ ~NoUsableAnalysis) =>
        \A key \in {"community_momentum", "development_velocity", "technology_quality",
                    "market_potential", "network_effects"} :
            uh_result.component_scores[key] \in WithoutAnalysis(key)

\* C8 amended: with a successful codebase analysis, community_momentum,
\* development_velocity, market_potential and network_effects have the
\* values they have without one (technology_quality is recomputed).
C8_UnenrichedComponentsUnchanged ==
    (Returned /\ ~NoUsableAnalysis) =>
        \A key \in {"community_momentum", "development_velocity",
                    "market_potential", "network_effects"} :
            uh_result.component_scores[key] \in WithoutAnalysis(key)

\* C8 on a call with a successful analysis that changes technology_quality.
C8_Witness ==
    /\ Returned
    /\ ~NoUsableAnalysis
    /\ uh_result.component_scores.code_quality > 0
    /\ uh_result.component_scores.technology_quality \notin WithoutAnalysis("technology_quality")

\* The enriched technology quality of the call, restated from its parts:
\* 0.3 * base + 0.4 * maintainability + 0.3 * architecture + 0.3 * dependency
\* health, in tenths of a point.
EnrichedTechnologyQuality ==
    LET scores   == Get(uh_inputs.repo_data, "scores", EmptyDict)
        quality  == Get(uh_analysis, "quality_scores", EmptyDict)
        arch     == Get(uh_analysis, "architecture", EmptyDict)
        deps     == Get(uh_analysis, "dependencies", EmptyDict)
        base     == Get(scores, "overall_score", ScoreSteps) * 40
                      + Get(scores, "health_score", ScoreSteps) * 30
                      + Get(scores, "activity_score", ScoreSteps) * 30
        arch100  == Get(arch, "modularity_score", 5) * 4
                      + (10 - Get(arch, "coupling_score", 5)) * 3
                      + Get(arch, "cohesion_score", 5) * 3
        dep200   == Max(0, 200 - Get(deps, "security_vulnerabilities", 0) * 10
                               - Get(deps, "outdated_percentage", 0))
    IN  RoundTenths(base * 6
                      + ScoreDen * (Get(quality, "maintainability_index", 50) * 8
                                      + arch100 * 6 + dep200 * 3),
                    2 * ScoreDen)

\* C9: the seven-dimension weight table and the enriched technology quality
\* are used exactly when a record with status "success" is supplied; a
\* record of any other status gives a result the call without a record gives.
C9_EnrichedIffSuccess ==
    Returned =>
        IF uh_analysis # None /\ uh_analysis.status = "success"
        THEN LET scores == uh_result.component_scores
             IN  /\ scores.technology_quality \in EnrichedTechnologyQuality
                 /\ uh_result.unicorn_score \in
                        RoundTenths(scores.community_momentum * 25
                                      + scores.development_velocity * 15
                                      + scores.technology_quality * 20
                                      + scores.market_potential * 15
                                      + scores.network_effects * 10
                                      + scores.code_quality * 10
                                      + scores.security_posture * 5,
                                    100)
        ELSE uh_result \in calculate_unicorn_hunter(uh_inputs, None)

\* C9 on a call given a "failed" record that carries every section: the
\* result is a baseline result and differs from the enriched one.
C9_Witness ==
    /\ Returned
    /\ uh_analysis = BestAnalysis("failed")
    /\ uh_result \in calculate_unicorn_hunter(uh_inputs, None)
    /\ uh_result \notin calculate_unicorn_hunter(uh_inputs, BestAnalysis("success"))

(***************************************************************************)
(* Properties of the package lookup (checked under SpecPackage)            *)
(***************************************************************************)

\* A calculate_adoption_score call on a record with status "success".
Scored(call) == call # None /\ call.stats.status = "success"

\* C3: the adoption score of a "success" record is in [0,100], for every
\* registry and every non-negative download count.
C3_AdoptionScoreInRange ==
    Scored(last_call) => (last_call.score >= 0 /\ last_call.score <= Points(100))

\* The count a registry's tiers are taken from, and the documented breakpoints.
Downloads(call) ==
    IF call.stats.package_manager = "npm" THEN call.stats.stats.weekly_downloads
    ELSE IF call.stats.package_manager = "pypi" THEN call.stats.stats.monthly_downloads
    ELSE call.stats.stats.total_downloads

Breakpoints(manager) ==
    IF manager = "npm" THEN {100, 1000, 10000, 100000}
    ELSE IF manager = "pypi" THEN {500, 5000, 50000, 500000}
    ELSE {}

\* The steepest documented slope, per download: 1/10 point (npm), 1/50 (pypi).
SteepestStep(manager) ==
    IF manager = "npm" THEN ScoreUnit \div 10 ELSE ScoreUnit \div 50

\* C4: no jump at a documented breakpoint b of npm or pypi: the scores at
\* b - 1 and at b differ by no more than one download's worth of the
\* steepest segment, as they do when the two segments agree at b.
C4_NoJumpAtBreakpoints ==
    (/\ Scored(prev_call)
     /\ Scored(last_call)
     /\ prev_call.stats.package_manager = last_call.stats.package_manager
     /\ Downloads(last_call) \in Breakpoints(last_call.stats.package_manager)
     /\ Downloads(prev_call) = Downloads(last_call) - 1)
    => /\ last_call.score - prev_call.score <= SteepestStep(last_call.stats.package_manager)
       /\ prev_call.score - last_call.score <= SteepestStep(last_call.stats.package_manager)

\* C5: for each registry the adoption score is non-decreasing in the raw
\* download count (for cargo, in total and in recent downloads).
C5_AdoptionScoreMonotone ==
    (/\ Scored(prev_call)
     /\ Scored(last_call)
     /\ prev_call.stats.package_manager = last_call.stats.package_manager
     /\ Downloads(prev_call) <= Downloads(last_call)
     /\ (last_call.stats.package_manager = "cargo" =>
            prev_call.stats.stats.recent_downloads <= last_call.stats.stats.recent_downloads))
    => prev_call.score <= last_call.score

RegistryOrder == <<"npm", "pypi", "cargo">>

\* C10: the registries are queried in the order npm, PyPI, crates.io; a
\* registry is queried only after every earlier one returned nothing; the
\* call returns at the first answer, with that registry's data; and the
\* status is "not_found" exactly when all three returned nothing.
C10_RegistryOrder ==
    /\ Len(queried) <= 3
    /\ \A i \in 1..Len(queried) :
          /\ queried[i].registry = RegistryOrder[i]
          /\ i < Len(queried) => queried[i].answer = None
    /\ pc \in {"npm", "pypi", "cargo"} =>
          /\ \A i \in 1..Len(queried) : queried[i].answer = None
          /\ pc = RegistryOrder[Len(queried) + 1]
    /\ pc = "done" =>
          /\ Len(queried) >= 1
          /\ pkg_result.status \in {"success", "not_found"}
          /\ pkg_result.status = "not_found" <=>
                 (Len(queried) = 3 /\ \A i \in 1..3 : queried[i].answer = None)
          /\ pkg_result.status = "success" =>
                 /\ pkg_result.stats = queried[Len(queried)].answer
                 /\ pkg_result.package_manager = queried[Len(queried)].registry

\* C10 on a lookup that reached crates.io after npm and PyPI returned
\* nothing, and found the crate.
C10_Witness ==
    /\ pc = "done"
    /\ Len(queried) = 3
    /\ queried[1].answer = None
    /\ queried[2].answer = None
    /\ pkg_result.status = "success"
    /\ pkg_result.package_manager = "cargo"

(***************************************************************************)
(* codebase_analysis.py: CodebaseAnalysisTool.analyze_codebase.  A score   *)
(* or percentage that the code rounds to one decimal is in tenths, one it  *)
(* rounds to two decimals in hundredths, a size in bytes.  A file name is  *)
(* one of the sampled names; what str.lower, `in`, startswith and endswith *)
(* find in it is tabulated.                                                *)
(***************************************************************************)

Dir(name) == [name |-> name, path |-> name, type |-> "dir"]

File(name, size) == [name |-> name, path |-> name, type |-> "file", size |-> size]

\* The root of a repository as GitHub lists it, in the order of the names.
RootListing ==
    << File(".eslintrc.json", 200),
       Dir(".github"),
       File("README.md", 3000),
       Dir("docs"),
       File("index.ts", 1500),
       File("main.py", 60000),
       File("openapi.yaml", 800),
       File("package.json", 700),
       File("requirements.txt", 100),
       Dir("services"),
       File("test_main.py", 400) >>

\* The entries of RootListing at the given positions, in order.
Entries(positions) ==
    LET upto[i \in 0 .. Len(RootListing)] ==
            IF i = 0 THEN <<>>
            ELSE IF i \in positions THEN Append(upto[i - 1], RootListing[i])
            ELSE upto[i - 1]
    IN  upto[Len(RootListing)]

\* What GET /repos/{owner}/{repo}/contents/ holds: an array of entries, or a
\* single object (with or without a type).
ContentsSamples ==
    { [array |-> Entries(positions)] : positions \in SUBSET (1 .. Len(RootListing)) }
      \cup { [object |-> File("main.py", 60000)],
             [object |-> [name |-> "main.py", size |-> 60000]] }

\* name.lower()
LowerName(name) == IF name = "README.md" THEN "readme.md" ELSE name

\* The fragments the analyzers look for that occur in a lower-case name.
FragmentsIn(name_lower) ==
    CASE name_lower = ".eslintrc.json"   -> {"lint", "eslint"}
      [] name_lower = ".github"          -> {".github"}
      [] name_lower = "openapi.yaml"     -> {"api", "openapi"}
      [] name_lower = "package.json"     -> {"package.json"}
      [] name_lower = "requirements.txt" -> {"requirements.txt"}
      [] name_lower = "services"         -> {"service"}
      [] name_lower = "test_main.py"     -> {"test"}
      [] OTHER -> {}

\* fragment in name.lower()
NameHas(name, fragment) == fragment \in FragmentsIn(LowerName(name))

\* _get_file_extension: "." + filename.split(".")[-1].lower(), None without a dot.
get_file_extension(filename) ==
    CASE filename = ".eslintrc.json"   -> ".json"
      [] filename = ".github"          -> ".github"
      [] filename = "README.md"        -> ".md"
      [] filename = "index.ts"         -> ".ts"
      [] filename = "main.py"          -> ".py"
      [] filename = "openapi.yaml"     -> ".yaml"
      [] filename = "package.json"     -> ".json"
      [] filename = "requirements.txt" -> ".txt"
      [] filename = "test_main.py"     -> ".py"
      [] OTHER -> NoneStr

code_extensions ==
    {".py", ".js", ".jsx", ".ts", ".tsx", ".java", ".go", ".rs",
     ".cpp", ".c", ".cs", ".rb", ".php", ".swift", ".kt", ".scala"}

\* _is_code_file: the lower-case name ends with a code extension; of the
\* sampled names those are the ones whose extension is a code extension.
is_code_file(filename) == get_file_extension(filename) \in code_extensions

\* _is_test_file
is_test_file(filename) ==
    \E indicator \in {"test", "spec", "__test__", "__tests__"} : NameHas(filename, indicator)

IsFile(f) == Get(f, "type", NoneStr) = "file"

IsDir(f) == Get(f, "type", NoneStr) = "dir"

IsCode(f) == IsFile(f) /\ is_code_file(Get(f, "name", ""))

IsTest(f) == IsFile(f) /\ is_test_file(Get(f, "name", ""))

\* sum(f.get("size", 0) for f in files)
RECURSIVE SumSizes(_)
SumSizes(files) ==
    IF files = <<>> THEN 0
    ELSE Get(Head(files), "size", 0) + SumSizes(Tail(files))

\* any(condition(f) for f in contents)
AnyOf(contents, condition(_)) == \E i \in DOMAIN contents : condition(contents[i])

\* _analyze_complexity.  estimated_avg_complexity is estimated / bound.
analyze_complexity(contents) ==
    LET code_files == SelectSeq(contents, IsCode)
        count      == Len(code_files)
        total_size == SumSizes(code_files)
        \* min(20, max(1, (avg_file_size / 1000) * 2)) = estimated / bound
        bound      == 500 * count
        estimated  == Min(20 * bound, Max(bound, total_size))
        \* max(1, min(10, 10 - estimated_avg_complexity / 3)), over 3 * bound
        cognitive  == Max(3 * bound, Min(30 * bound, 30 * bound - estimated))
    IN  IF count = 0
        THEN {[average_cyclomatic_complexity |-> 0,
               max_cyclomatic_complexity     |-> 0,
               cognitive_complexity_score    |-> 0,
               duplication_percentage        |-> 0,
               average_file_size             |-> 0,
               average_function_length       |-> 0]}
        ELSE [average_cyclomatic_complexity : RoundRatio(10 * estimated, bound),
              max_cyclomatic_complexity     :
                  RoundRatio(Min(100 * bound, 5 * estimated), 2 * bound),
              cognitive_complexity_score    : RoundRatio(10 * cognitive, 3 * bound),
              \* min(30, max(0, (count / max(total_size / 10000, 1)) * 5))
              duplication_percentage        :
                  IF total_size <= 10000 THEN {10 * Min(30, 5 * count)}
                  ELSE RoundRatio(10 * Min(30 * total_size, Max(0, 50000 * count)),
                                  total_size),
              average_file_size             : RoundRatio(total_size, count),
              average_function_length       : RoundRatio(5 * estimated, bound)]

HasTests(f) == IsFile(f) /\ (NameHas(Get(f, "name", ""), "test")
                               \/ NameHas(Get(f, "name", ""), "spec"))

HasDocs(f) == LowerName(Get(f, "name", "")) \in {"readme.md", "readme.rst", "docs"}

HasCi(f) == ".github" \in FragmentsIn(Get(f, "path", ""))
              \/ NameHas(Get(f, "path", ""), "ci")

HasLinting(f) == NameHas(Get(f, "name", ""), "lint") \/ NameHas(Get(f, "name", ""), "eslint")

\* maintainability before min(100, ...): the base 50 and 15, 10, 10, 10.
MaintainabilityBase(contents) ==
    50 + (IF AnyOf(contents, HasTests) THEN 15 ELSE 0)
       + (IF AnyOf(contents, HasDocs) THEN 10 ELSE 0)
       + (IF AnyOf(contents, HasCi) THEN 10 ELSE 0)
       + (IF AnyOf(contents, HasLinting) THEN 10 ELSE 0)

\* _analyze_quality; technical_debt_ratio in hundredths.
analyze_quality(contents) ==
    LET maintainability == MaintainabilityBase(contents)
        tech_debt       == Max(0, Min(100, 100 - maintainability))
        smell_density   == Max(0, 100 - maintainability)
        doc_coverage    == 30 + (IF AnyOf(contents, HasDocs) THEN 30 ELSE 0)
                              + (IF AnyOf(contents, HasTests) THEN 20 ELSE 0)
    IN  {[maintainability_index  |-> 10 * Min(100, maintainability),
          technical_debt_ratio   |-> tech_debt,
          code_smell_density     |-> smell_density,
          documentation_coverage |-> 10 * Min(100, doc_coverage)]}

\* _analyze_test_coverage; test_to_code_ratio in hundredths.
analyze_test_coverage(contents) ==
    LET tests == Len(SelectSeq(contents, IsTest))
        codes == Len(SelectSeq(contents, IsCode))
        \* estimated_coverage = min(100, test_ratio * 200), over codes
        estimated == Min(100 * codes, 200 * tests)
        \* min(10, max(0, (test_ratio * 20) + 2)), over codes
        test_quality == Min(10 * codes, Max(0, 20 * tests + 2 * codes))
    IN  IF codes = 0
        THEN {[overall_coverage          |-> 0,
               unit_test_coverage        |-> 0,
               integration_test_coverage |-> 0,
               test_to_code_ratio        |-> 0,
               test_quality_score        |-> 0]}
        ELSE [overall_coverage          : RoundRatio(10 * estimated, codes),
              unit_test_coverage        : RoundRatio(7 * estimated, codes),
              integration_test_coverage : RoundRatio(3 * estimated, codes),
              test_to_code_ratio        : RoundRatio(100 * tests, codes),
              test_quality_score        : RoundRatio(10 * test_quality, codes)]

\* dep_files: the dependency files and their package managers.
dep_files ==
    [x \in {"package.json", "requirements.txt", "Pipfile", "poetry.lock", "go.mod",
            "Cargo.toml", "pom.xml", "build.gradle"} |->
        CASE x = "package.json"     -> "npm"
          [] x = "requirements.txt" -> "pip"
          [] x = "Pipfile"          -> "pipenv"
          [] x = "poetry.lock"      -> "poetry"
          [] x = "go.mod"           -> "go"
          [] x = "Cargo.toml"       -> "rust"
          [] x = "pom.xml"          -> "maven"
          [] x = "build.gradle"     -> "gradle"]

IsDepFile(f) == Get(f, "name", "") \in DOMAIN dep_files

\* found_deps: the names of the dependency files, in the order of the listing.
FoundDeps(contents) ==
    LET found == SelectSeq(contents, IsDepFile)
    IN  [i \in DOMAIN found |-> found[i].name]

\* What _get_file_content and the parsing of a dependency file can give: no
\* content (None or ""), JSON that does not parse, a package.json with so
\* many dependencies and devDependencies, a text with so many lines that are
\* neither blank nor comments.
FileContentSamples(dep_file) ==
    IF dep_file = "package.json"
    THEN {None, [malformed |-> TRUE], [dependencies |-> 0], [dependencies |-> 12]}
    ELSE {None, [lines |-> 0], [lines |-> 250]}

\* total_deps after the loop over found_deps: each file that could be read
\* overwrites the count of the files before it.
RECURSIVE TotalDeps(_, _, _)
TotalDeps(found_deps, file_contents, total_deps) ==
    IF found_deps = <<>> THEN total_deps
    ELSE LET dep_file == Head(found_deps)
             content  == file_contents[1]
             counted  ==
                 IF content = None THEN total_deps
                 ELSE IF dep_file = "package.json"
                      THEN Get(content, "dependencies", total_deps)
                 ELSE IF dep_file \in {"requirements.txt", "Pipfile"}
                      THEN Get(content, "lines", total_deps)
                 ELSE total_deps
         IN  TotalDeps(Tail(found_deps), Tail(file_contents), counted)

\* _analyze_dependencies with the contents of the dependency files it read.
analyze_dependencies(contents, file_contents) ==
    LET found_deps      == FoundDeps(contents)
        parsed          == TotalDeps(found_deps, file_contents, 0)
        total_deps      == IF parsed = 0 THEN 20 ELSE parsed
        outdated_pct    == 20
        vuln_pct        == 3
        vulnerabilities == Max(0, (total_deps * vuln_pct) \div 100)
    IN  IF found_deps = <<>>
        THEN {[total_dependencies          |-> 0,
               outdated_count              |-> 0,
               outdated_percentage         |-> 0,
               security_vulnerabilities    |-> 0,
               critical_vulnerabilities    |-> 0,
               license_compliance_score    |-> 10 * 100,
               average_dependency_age_days |-> 0]}
        ELSE {[total_dependencies          |-> total_deps,
               outdated_count              |-> (total_deps * outdated_pct) \div 100,
               outdated_percentage         |-> 10 * outdated_pct,
               security_vulnerabilities    |-> vulnerabilities,
               critical_vulnerabilities    |-> Max(0, (vulnerabilities * 2) \div 10),
               license_compliance_score    |-> 10 * 95,
               average_dependency_age_days |-> 180]}

PathHas(contents, fragment) ==
    \E i \in DOMAIN contents : NameHas(Get(contents[i], "path", ""), fragment)

\* patterns, in the order the code appends them.
Patterns(contents) ==
    (IF PathHas(contents, "controller") \/ PathHas(contents, "handler")
       THEN <<"MVC">> ELSE <<>>)
    \o (IF PathHas(contents, "service") THEN <<"Service Layer">> ELSE <<>>)
    \o (IF PathHas(contents, "repository") \/ PathHas(contents, "repo")
          THEN <<"Repository">> ELSE <<>>)
    \o (IF PathHas(contents, "factory") THEN <<"Factory">> ELSE <<>>)
    \o (IF PathHas(contents, "adapter") THEN <<"Adapter">> ELSE <<>>)

\* _analyze_architecture without the min and max around its three scores.
ArchitectureUnclamped(contents) ==
    LET dir_count  == Len(SelectSeq(contents, IsDir))
        files      == Max(Len(SelectSeq(contents, IsFile)), 1)
    IN  [modularity_score : RoundRatio(10 * (30 * dir_count + 5 * files), files),
         coupling_score   : RoundRatio(10 * (10 * files - 20 * dir_count), files),
         cohesion_score   : RoundRatio(10 * (30 * dir_count + 7 * files), files),
         design_patterns_detected : {<<"None detected">>},
         architecture_type : {"monolith"}]

\* _analyze_architecture.  dir_ratio is dir_count / files.
analyze_architecture(contents) ==
    LET dir_count  == Len(SelectSeq(contents, IsDir))
        file_count == Len(SelectSeq(contents, IsFile))
        files      == Max(file_count, 1)
        \* min(10, max(0, (dir_ratio * 30) + 5)), over files
        modularity_score == Min(10 * files, Max(0, 30 * dir_count + 5 * files))
        \* max(1, min(10, 10 - (dir_ratio * 20))), over files
        coupling_score   == Max(files, Min(10 * files, 10 * files - 20 * dir_count))
        \* min(10, max(5, modularity_score + 2)), over files
        cohesion_score   == Min(10 * files, Max(5 * files, modularity_score + 2 * files))
        patterns         == Patterns(contents)
        arch_type ==
            IF PathHas(contents, "microservice") \/ PathHas(contents, "service")
                THEN "microservices"
            ELSE IF 5 * dir_count > files THEN "modular_monolith"
            ELSE "monolith"
    IN  [modularity_score : RoundRatio(10 * modularity_score, files),
         coupling_score   : RoundRatio(10 * coupling_score, files),
         cohesion_score   : RoundRatio(10 * cohesion_score, files),
         design_patterns_detected :
             {IF patterns # <<>> THEN patterns ELSE <<"None detected">>},
         architecture_type : {arch_type}]

IsReadme(f) == LowerName(Get(f, "name", "")) \in {"readme.md"}

IsDocsDir(f) == IsDir(f) /\ LowerName(Get(f, "name", "")) = "docs"

IsApiDoc(f) ==
    IsFile(f) /\ \E fragment \in {"api", "openapi", "swagger", "graphql"} :
                     NameHas(Get(f, "name", ""), fragment)

IsOpenApi(f) == NameHas(Get(f, "name", ""), "openapi")

IsGraphQl(f) == NameHas(Get(f, "name", ""), "graphql")

\* _analyze_documentation
analyze_documentation(contents) ==
    LET has_readme   == AnyOf(contents, IsReadme)
        has_docs_dir == AnyOf(contents, IsDocsDir)
        api_docs     == AnyOf(contents, IsApiDoc)
        \* 7 with a README, 1.5 more with a docs directory
        readme_score == IF has_readme THEN 70 + (IF has_docs_dir THEN 15 ELSE 0) ELSE 0
        comment_coverage == 30 + (IF has_readme THEN 20 ELSE 0)
                               + (IF has_docs_dir THEN 20 ELSE 0)
                               + (IF api_docs THEN 15 ELSE 0)
        api_doc_type == IF ~api_docs THEN NoneStr
                        ELSE IF AnyOf(contents, IsOpenApi) THEN "OpenAPI"
                        ELSE IF AnyOf(contents, IsGraphQl) THEN "GraphQL"
                        ELSE "Custom"
    IN  {[readme_quality_score         |-> readme_score,
          api_documentation_present    |-> api_docs,
          api_documentation_type       |-> api_doc_type,
          comment_coverage             |-> 10 * Min(100, comment_coverage),
          documentation_freshness_days |-> 60]}

\* lang_map.get(ext, "Other")
LangOf(ext) ==
    CASE ext \in {".js", ".jsx"}            -> "JavaScript"
      [] ext \in {".ts", ".tsx"}            -> "TypeScript"
      [] ext = ".py"                        -> "Python"
      [] ext = ".java"                      -> "Java"
      [] ext = ".go"                        -> "Go"
      [] ext = ".rs"                        -> "Rust"
      [] ext = ".cpp"                       -> "C++"
      [] ext = ".c"                         -> "C"
      [] ext = ".cs"                        -> "C#"
      [] ext = ".rb"                        -> "Ruby"
      [] ext = ".php"                       -> "PHP"
      [] ext = ".swift"                     -> "Swift"
      [] ext = ".kt"                        -> "Kotlin"
      [] ext = ".scala"                     -> "Scala"
      [] ext = ".html"                      -> "HTML"
      [] ext \in {".css", ".scss", ".sass"} -> "CSS"
      [] ext = ".json"                      -> "JSON"
      [] ext \in {".yaml", ".yml"}          -> "YAML"
      [] ext = ".xml"                       -> "XML"
      [] OTHER -> "Other"

HasExtension(f) == IsFile(f) /\ get_file_extension(Get(f, "name", "")) # NoneStr

LanguageOf(f) == LangOf(get_file_extension(Get(f, "name", "")))

modern_langs == {"TypeScript", "Rust", "Go", "Swift", "Kotlin"}

\* frameworks, in the order the code appends them.
Frameworks(contents) ==
    (IF PathHas(contents, "package.json")
     THEN (IF PathHas(contents, "react") \/ PathHas(contents, "jsx")
             THEN <<"React">> ELSE <<>>)
          \o (IF PathHas(contents, "next.config") THEN <<"Next.js">> ELSE <<>>)
          \o (IF PathHas(contents, "vue") THEN <<"Vue">> ELSE <<>>)
          \o (IF PathHas(contents, "angular") THEN <<"Angular">> ELSE <<>>)
     ELSE <<>>)
    \o (IF PathHas(contents, "requirements.txt") \/ PathHas(contents, "setup.py")
        THEN IF PathHas(contents, "django") THEN <<"Django">>
             ELSE IF PathHas(contents, "flask") THEN <<"Flask">>
             ELSE IF PathHas(contents, "fastapi") THEN <<"FastAPI">>
             ELSE <<>>
        ELSE <<>>)

BuildSystem(contents) ==
    IF PathHas(contents, "package.json") THEN "npm/yarn"
    ELSE IF PathHas(contents, "pom.xml") THEN "Maven"
    ELSE IF PathHas(contents, "build.gradle") THEN "Gradle"
    ELSE IF PathHas(contents, "cargo.toml") THEN "Cargo"
    ELSE IF PathHas(contents, "go.mod") THEN "Go Modules"
    ELSE "Unknown"

\* _analyze_technology_stack.  A language's share is given as the set of
\* values its rounding to one decimal can give.
analyze_technology_stack(contents) ==
    LET files      == SelectSeq(contents, HasExtension)
        total_size == SumSizes(files)
        languages  == { LanguageOf(files[i]) : i \in DOMAIN files }
        SizeOf(lang) == SumSizes(SelectSeq(files, LAMBDA f : LanguageOf(f) = lang))
        lang_percentages ==
            IF total_size > 0
            THEN [lang \in languages |-> RoundRatio(1000 * SizeOf(lang), total_size)]
            ELSE [lang \in {} |-> {}]
        modern_score == 5 + Cardinality(DOMAIN lang_percentages \cap modern_langs)
        frameworks   == Frameworks(contents)
    IN  {[primary_languages |->
              IF DOMAIN lang_percentages # {} THEN lang_percentages
              ELSE [lang \in {"Unknown"} |-> {10 * 100}],
          frameworks |-> IF frameworks # <<>> THEN frameworks ELSE <<"None detected">>,
          language_modernity_score |-> 10 * Min(10, modern_score),
          build_system |-> BuildSystem(contents)]}

\* An entry whose size is null makes the sums of sizes raise.
NullSize(f) == "size" \in Get(f, "null", {})

ComplexityRaises(contents) == \E i \in DOMAIN contents : IsCode(contents[i]) /\ NullSize(contents[i])

TechnologyRaises(contents) ==
    \E i \in DOMAIN contents : HasExtension(contents[i]) /\ NullSize(contents[i])

\* "all" in include_metrics or metric in include_metrics
Wanted(include_metrics, metric) ==
    \E i \in DOMAIN include_metrics : include_metrics[i] \in {"all", metric}

\* results[key] = value for each value a wanted analyzer can return; nothing
\* is added for an analyzer that is not wanted.
Section(include_metrics, metric, key, values) ==
    IF Wanted(include_metrics, metric)
    THEN { [k \in {key} |-> value] : value \in values }
    ELSE { [k \in {} |-> 0] }

\* The dictionaries the body of analyze_codebase can return once the
\* repository is found and its contents and dependency files are fetched.
CodebaseResults(analysis_depth, include_metrics, contents, file_contents) ==
    IF \/ Wanted(include_metrics, "complexity") /\ ComplexityRaises(contents)
       \/ Wanted(include_metrics, "technology") /\ TechnologyRaises(contents)
    THEN {[error |-> "TypeError", status |-> "failed", analysis_timestamp |-> "utcnow"]}
    ELSE { [analysis_timestamp |-> "utcnow",
            analysis_depth     |-> analysis_depth,
            status             |-> "success"]
             @@ complexity @@ quality @@ tests @@ dependencies @@ architecture
             @@ documentation @@ technology :
           complexity \in Section(include_metrics, "complexity", "code_complexity",
                                  analyze_complexity(contents)),
           quality \in Section(include_metrics, "quality", "quality_scores",
                               analyze_quality(contents)),
           tests \in Section(include_metrics, "tests", "test_coverage",
                             analyze_test_coverage(contents)),
           dependencies \in Section(include_metrics, "dependencies", "dependencies",
                                    analyze_dependencies(contents, file_contents)),
           architecture \in Section(include_metrics, "architecture", "architecture",
                                    analyze_architecture(contents)),
           documentation \in Section(include_metrics, "documentation", "documentation",
                                     analyze_documentation(contents)),
           technology \in Section(include_metrics, "technology", "technology_stack",
                                  analyze_technology_stack(contents)) }

\* The arguments of the calls: analysis_depth, and include_metrics unless it
\* is left None.
CodebaseCallSamples ==
    { [analysis_depth |-> "standard"],
      [analysis_depth |-> "standard", include_metrics |-> <<"all">>],
      [analysis_depth |-> "quick", include_metrics |-> <<"quality", "architecture">>],
      [analysis_depth |-> "deep",
       include_metrics |-> <<"complexity", "tests", "dependencies", "documentation",
                             "technology">>] }

\* What GitHub holds: the repository and the contents of its root, among
\* them a listing with a file whose size is null.
CodebaseSamples ==
    [repo     : {[full_name |-> <<"mcpmessenger", "slashmcp">>]},
     contents : ContentsSamples
                  \cup {[array |-> <<[name |-> "main.py", path |-> "main.py",
                                      type |-> "file", null |-> {"size"}]>>]}]

\* if include_metrics is None: include_metrics = ["all"]
IncludeMetrics(call) == Get(call, "include_metrics", <<"all">>)

\* _fetch_repository_contents, and a single object put in a list if it has a type.
FetchedContents(response) ==
    IF response = Raised THEN <<>>
    ELSE IF response.status_code # 200 THEN <<>>
    ELSE IF "array" \in DOMAIN response.json THEN response.json.array
    ELSE IF Get(response.json.object, "type", NoneStr) # NoneStr
         THEN <<response.json.object>>
    ELSE <<>>

\* _analyze_dependencies is reached and reads dependency files.
ReadsDependencyFiles(call, contents) ==
    /\ Wanted(IncludeMetrics(call), "dependencies")
    /\ FoundDeps(contents) # <<>>
    /\ ~(Wanted(IncludeMetrics(call), "complexity") /\ ComplexityRaises(contents))

\* repo_data = self._fetch_repo_data(owner, repo); without it the call
\* returns "Repository not found".
FetchCodebaseRepoData ==
    /\ cb_pc = "fetch_repo_data"
    /\ \E response \in Answers(cb_github.repo) :
         LET repo_data == FetchedRepoData(response)
         IN  /\ cb_fetched' = [cb_fetched EXCEPT !.repo_data = repo_data]
             /\ IF repo_data = EmptyDict
                THEN /\ cb_result' = [error |-> "Repository not found", status |-> "failed"]
                     /\ cb_pc' = "done"
                ELSE /\ cb_result' = cb_result
                     /\ cb_pc' = "fetch_contents"
    /\ UNCHANGED <<cb_call, cb_github>>
    /\ UNCHANGED outside_codebase

\* contents = self._fetch_repository_contents(owner, repo, "")
FetchRepositoryContents ==
    /\ cb_pc = "fetch_contents"
    /\ \E response \in Answers(cb_github.contents) :
         LET contents == FetchedContents(response)
         IN  /\ cb_fetched' = [cb_fetched EXCEPT !.contents = contents]
             /\ cb_pc' = IF ReadsDependencyFiles(cb_call, contents)
                         THEN "get_file_content" ELSE "analyze"
    /\ UNCHANGED <<cb_call, cb_github, cb_result>>
    /\ UNCHANGED outside_codebase

\* content = self._get_file_content(owner, repo, dep_file), for the next
\* dependency file.
GetFileContent ==
    /\ cb_pc = "get_file_content"
    /\ LET found_deps == FoundDeps(cb_fetched.contents)
           next       == Len(cb_fetched.file_contents) + 1
       IN  \E content \in FileContentSamples(found_deps[next]) :
             /\ cb_fetched' = [cb_fetched EXCEPT !.file_contents = Append(@, content)]
             /\ cb_pc' = IF next = Len(found_deps) THEN "analyze" ELSE "get_file_content"
    /\ UNCHANGED <<cb_call, cb_github, cb_result>>
    /\ UNCHANGED outside_codebase

\* The analyzers run on what was fetched and the call returns.
AnalyzeMetrics ==
    /\ cb_pc = "analyze"
    /\ cb_result' \in CodebaseResults(cb_call.analysis_depth, IncludeMetrics(cb_call),
                                      cb_fetched.contents, cb_fetched.file_contents)
    /\ cb_pc' = "done"
    /\ UNCHANGED <<cb_call, cb_github, cb_fetched>>
    /\ UNCHANGED outside_codebase

\* A codebase is to be analyzed; nothing is fetched yet.
InitCodebase ==
    /\ cb_pc = "fetch_repo_data"
    /\ cb_call \in CodebaseCallSamples
    /\ cb_github \in CodebaseSamples
    /\ cb_fetched = [repo_data |-> None, contents |-> <<>>, file_contents |-> <<>>]
    /\ cb_result = None
    /\ PackageIdle
    /\ UnicornIdle
    /\ InvokeIdle
    /\ GitHubIdle
    /\ ValuationIdle

NextCodebase ==
    \/ FetchCodebaseRepoData
    \/ FetchRepositoryContents
    \/ GetFileContent
    \/ AnalyzeMetrics

\* One call of analyze_codebase, fetch by fetch.
SpecCodebase == InitCodebase /\ [][NextCodebase]_vars

\* Either calculate_market_based or analyze_codebase is called.
InitRatios ==
    \/ InitValuation /\ val_call.method = "market_based"
    \/ InitCodebase

NextRatios ==
    \/ val_pc = "called" /\ CalculateMarketBased
    \/ NextCodebase

\* One call of one of the two operations that divide by a count taken from
\* their input.
SpecRatios == InitRatios /\ [][NextRatios]_vars

(***************************************************************************)
(* Properties of invoke_tool (checked under SpecInvoke)                    *)
(***************************************************************************)

RequestedTool == Get(inv_request, "tool", NoneStr)

\* The value the request gives an argument of the tool, `default` when it
\* gives none: the request has no arguments, null arguments, or arguments
\* without the key.
Given(key, default) ==
    LET arguments == Get(inv_request, "arguments", EmptyDict)
    IN  IF arguments = None THEN default ELSE Get(arguments, key, default)

\* The request lacks the tool name or an argument its tool requires.
MissingRequiredArgument ==
    \/ RequestedTool \in {NoneStr, ""}
    \/ /\ RequestedTool \in {"analyze_github_repository", "get_package_stats"}
       /\ \/ Given("owner", NoneStr) \in {NoneStr, ""}
          \/ Given("repo", NoneStr) \in {NoneStr, ""}
    \/ /\ RequestedTool \in {"calculate_valuation", "analyze_codebase", "unicorn_hunter"}
       /\ Given("repo_data", None) \in {None, EmptyDict}
    \/ /\ RequestedTool = "compare_with_market"
       /\ Given("repo_metrics", None) \in {None, EmptyDict}
    \/ /\ RequestedTool = "agent_executor"
       /\ Given("input", <<>>) = <<>>

HttpError(status_code) ==
    /\ Get(inv_response, "raised", NoneStr) = "HTTPException"
    /\ inv_response.status_code = status_code

\* C11: when the tool name or a required argument (owner or repo, repo_data,
\* repo_metrics, input) is missing, no collaborator is ever called and the
\* call ends with an HTTP 400 error.
C11_MissingArgumentIs400 ==
    MissingRequiredArgument =>
        /\ inv_calls = <<>>
        /\ inv_pc \in {"start", "done"}
        /\ inv_pc = "done" => HttpError(400)

(***************************************************************************)
(* Properties of analyze_repository (checked under SpecGitHub)             *)
(***************************************************************************)

Analyzed == gh_pc = "done"

FullRecord(record) == DOMAIN record = {"basic_info", "metrics", "scores", "development"}

FailedRecord(record) == DOMAIN record = {"error", "status"} /\ record.status = "failed"

\* C12: whichever of the three fetches fail, analyze_repository raises
\* nothing and returns either a record with all four sections basic_info,
\* metrics, scores and development, or a record {error, status: "failed"};
\* never a record with only some of the sections.
C12_FullOrFailed ==
    Analyzed =>
        /\ gh_result # Raised
        /\ FullRecord(gh_result) \/ FailedRecord(gh_result)

\* C12 on a call whose repository fetch succeeded and whose two other
\* fetches failed although GitHub holds commits and contributors.
C12_Witness ==
    /\ Analyzed
    /\ FullRecord(gh_result)
    /\ gh_github.commit_activity # <<>>
    /\ gh_fetched.commit_activity = NoCommitActivity
    /\ gh_github.contributors # <<>>
    /\ gh_fetched.contributor_stats = <<>>
    /\ gh_result.development.contributors = 0

\* The call went down agent_executor's unicorn path: the repository
\* analysis succeeded and the query asks for a unicorn score.
OnUnicornPath ==
    /\ RequestedTool = "agent_executor"
    /\ Len(inv_calls) >= 1
    /\ inv_calls[1].outcome # Raised
    /\ "error" \notin DOMAIN inv_calls[1].outcome
    /\ Contains(LowerQuery(Given("input", <<>>)), "unicorn")

\* The answers of the calls of a collaborator.
OutcomesOf(collaborator) ==
    { inv_calls[i].outcome : i \in { j \in DOMAIN inv_calls :
                                       inv_calls[j].collaborator = collaborator } }

Failed(outcome) == outcome = Raised \/ outcome.status # "success"

\* The unicorn score is the rounded weighted sum of the five baseline dimensions.
BaselineResult(unicorn_result) ==
    LET scores == unicorn_result.component_scores
    IN  /\ scores.code_quality = 0
        /\ scores.security_posture = 0
        /\ "codebase_analysis" \notin DOMAIN unicorn_result
        /\ unicorn_result.unicorn_score \in
               RoundTenths(scores.community_momentum * 25
                             + scores.development_velocity * 20
                             + scores.technology_quality * 20
                             + scores.market_potential * 20
                             + scores.network_effects * 15,
                           100)

\* C13: on agent_executor's unicorn path, after a successful repository
\* analysis, the call ends with isError false and a unicorn_hunter result
\* whatever the package lookup and the codebase analysis did (raised, or
\* returned a status other than "success"); the result is the baseline
\* five-dimension one whenever no codebase analysis succeeded.
C13_UnicornPathTolerant ==
    (inv_pc = "done" /\ OnUnicornPath) =>
        /\ "isError" \in DOMAIN inv_response
        /\ inv_response.isError = FALSE
        /\ "unicorn_hunter" \in DOMAIN inv_response.content.text
        /\ (\A outcome \in OutcomesOf("codebase_tool") : Failed(outcome)) =>
               BaselineResult(inv_response.content.text.unicorn_hunter)

\* C13 on a call whose package lookup raised and whose codebase analysis
\* returned a failed record.
C13_Witness ==
    /\ inv_pc = "done"
    /\ OnUnicornPath
    /\ OutcomesOf("package_stats_tool") = {Raised}
    /\ \E outcome \in OutcomesOf("codebase_tool") :
          outcome # Raised /\ outcome.status = "failed"
    /\ inv_response.content.text.unicorn_hunter.unicorn_score > 0

(***************************************************************************)
(* Properties of the valuation methods                                     *)
(***************************************************************************)

MethodReturned(method) == val_pc = "returned" /\ val_call.method = method

\* C14: calculate_cost_based returns team_size * 160 * development_months *
\* hourly_rate for every input, negative and zero ones included (nothing is
\* clamped); two developers at $100 an hour for six months cost $192000.
C14_CostBasedIsProduct ==
    MethodReturned("cost_based") =>
        LET inputs == val_call.inputs
        IN  /\ val_result = inputs.team_size * 160 * inputs.development_months
                              * inputs.hourly_rate
            /\ (inputs.team_size = 2 /\ inputs.hourly_rate = 100 * 100
                  /\ inputs.development_months = 6)
                 => val_result = 192000 * 100

\* The test's call has returned $192000, and so has a call with a negative team.
C14_Witness ==
    /\ MethodReturned("cost_based")
    /\ val_call.inputs.team_size = 2
    /\ val_call.inputs.hourly_rate = 100 * 100
    /\ val_call.inputs.development_months = 6
    /\ val_result = 192000 * 100

\* C15: the valuation_range calculate_scorecard returns is ordered,
\* low <= medium <= high, for every repository record, scores outside [0,1]
\* and negative counts included.
C15_RangeOrdered ==
    MethodReturned("scorecard") =>
        /\ val_result.valuation_range.low <= val_result.valuation_range.medium
        /\ val_result.valuation_range.medium <= val_result.valuation_range.high

\* A scorecard above its floors has been returned: the range comes from the
\* total score, not from the constants 5000, 25000 and 100000.
C15_Witness ==
    /\ MethodReturned("scorecard")
    /\ val_result.valuation_range.low > 5000 * 100
    /\ val_result.valuation_range.medium > 25000 * 100
    /\ val_result.valuation_range.high > 100000 * 100

NoComparables == "comparable_data" \notin DOMAIN val_call \/ val_call.comparable_data = <<>>

StarsOf(inputs) == Get(Get(inputs.repo_data, "metrics", EmptyDict), "stars", 0)

\* C20: without comparables (None or an empty list) calculate_market_based
\* returns stars * 1000 * market_multiplier, which is positive when the stars
\* and the multiplier are.
C20_MarketDefault ==
    (MethodReturned("market_based") /\ NoComparables) =>
        LET stars == StarsOf(val_call.inputs)
            market_multiplier == val_call.inputs.market_multiplier
        IN  /\ val_result = stars * 1000 * market_multiplier
            /\ (stars > 0 /\ market_multiplier > 0) => val_result > 0

\* A call with an empty list has returned a positive value for a multiplier
\* other than the default 10.0.
C20_Witness ==
    /\ MethodReturned("market_based")
    /\ "comparable_data" \in DOMAIN val_call
    /\ val_call.comparable_data = <<>>
    /\ StarsOf(val_call.inputs) > 0
    /\ val_call.inputs.market_multiplier = 5
    /\ val_result > 0

(***************************************************************************)
(* Properties of the repository scores (checked under SpecGitHub); a score *)
(* is in units of 1 / GhScoreDen, a weekly average in eighths of a commit. *)
(***************************************************************************)

RepositoryScored == Analyzed /\ FullRecord(gh_result)

UnitInterval == 0 .. GhScoreDen

\* C17: whatever was fetched, the health, activity and community scores of
\* the returned record are in [0,1], and overall_score is their arithmetic
\* mean, so in [0,1] too.
C17_ScoresInUnitInterval ==
    RepositoryScored =>
        LET scores == gh_result.scores
        IN  /\ scores.health_score \in UnitInterval
            /\ scores.activity_score \in UnitInterval
            /\ scores.community_score \in UnitInterval
            /\ 3 * scores.overall_score
                 = scores.health_score + scores.activity_score + scores.community_score
            /\ scores.overall_score \in UnitInterval

\* A record with three different scores, the health score at its maximum,
\* and one with every score at 1.
C17_Witness ==
    /\ RepositoryScored
    /\ \/ /\ gh_result.scores.health_score = GhScoreDen
          /\ gh_result.scores.activity_score = Tenths(4)
          /\ gh_result.scores.community_score = Tenths(7)
          /\ gh_result.scores.overall_score = Tenths(7)
       \/ /\ gh_result.scores.health_score = GhScoreDen
          /\ gh_result.scores.activity_score = GhScoreDen
          /\ gh_result.scores.community_score = GhScoreDen
          /\ gh_result.scores.overall_score = GhScoreDen

\* Weekly averages from 0 to 15 commits, in eighths.
WeeklyAverages == 0 .. 15 * 8

\* C18: the activity score is 1.0 for a weekly average of 10 or more,
\* strictly between 0.5 and 1.0 for an average from 1 up to 10, 0.0 for an
\* average of 0, and no smaller average has a larger score.
C18_ActivityStepFunction ==
    RepositoryScored =>
        LET weekly_avg     == gh_result.development.commit_frequency
            activity_score == gh_result.scores.activity_score
        IN  /\ weekly_avg >= 10 * 8 => activity_score = GhScoreDen
            /\ (weekly_avg >= 1 * 8 /\ weekly_avg < 10 * 8)
                 => (2 * activity_score > GhScoreDen /\ activity_score < GhScoreDen)
            /\ weekly_avg = 0 => activity_score = 0
            /\ \A smaller \in WeeklyAverages :
                   smaller <= weekly_avg
                     => ActivityScore([weekly_avg |-> smaller]) <= activity_score

\* A repository with 39 commits in eight weeks, just under five a week.
C18_Witness ==
    /\ RepositoryScored
    /\ gh_result.development.commit_frequency = 39
    /\ gh_result.scores.activity_score = Tenths(6)

(***************************************************************************)
(* Properties of analyze_codebase (checked under SpecCodebase); the fields *)
(* are in tenths.                                                          *)
(***************************************************************************)

CodebaseAnalyzed ==
    cb_pc = "done" /\ Get(cb_result, "status", NoneStr) = "success"

Percentage == 0 .. 10 * 100

ZeroToTen == 0 .. 10 * 10

\* The fields of a section that is in the result are all in the range.
FieldsIn(section, fields, range) ==
    section \in DOMAIN cb_result => \A field \in fields : cb_result[section][field] \in range

\* C19: in a successful result of analyze_codebase every percentage field is
\* in [0,100] and every field on the 0-10 scale is in [0,10], whatever the
\* root listing of the repository holds.
C19_FieldsInRange ==
    CodebaseAnalyzed =>
        /\ FieldsIn("quality_scores",
                    {"maintainability_index", "documentation_coverage"}, Percentage)
        /\ FieldsIn("code_complexity", {"duplication_percentage"}, Percentage)
        /\ FieldsIn("test_coverage",
                    {"overall_coverage", "unit_test_coverage", "integration_test_coverage"},
                    Percentage)
        /\ FieldsIn("dependencies",
                    {"outdated_percentage", "license_compliance_score"}, Percentage)
        /\ FieldsIn("documentation", {"comment_coverage"}, Percentage)
        /\ FieldsIn("architecture",
                    {"modularity_score", "coupling_score", "cohesion_score"}, ZeroToTen)
        /\ FieldsIn("code_complexity", {"cognitive_complexity_score"}, ZeroToTen)
        /\ FieldsIn("test_coverage", {"test_quality_score"}, ZeroToTen)
        /\ FieldsIn("documentation", {"readme_quality_score"}, ZeroToTen)
        /\ FieldsIn("technology_stack", {"language_modernity_score"}, ZeroToTen)

\* A result with all seven sections in which the clamps decided: more
\* directories than files (modularity at 10, coupling at 1) and as many test
\* files as code files (coverage at 100, test quality at 10).
C19_Witness ==
    /\ CodebaseAnalyzed
    /\ {"code_complexity", "quality_scores", "test_coverage", "dependencies",
        "architecture", "documentation", "technology_stack"} \subseteq DOMAIN cb_result
    /\ cb_result.architecture.modularity_score = 10 * 10
    /\ cb_result.architecture.coupling_score = 10 * 1
    /\ cb_result.test_coverage.overall_coverage = 10 * 100
    /\ cb_result.test_coverage.test_quality_score = 10 * 10

(***************************************************************************)
(* Properties of the star sub-score (checked under SpecUnicornStars); the  *)
(* score is in units of 1 / PowUnit point.                                 *)
(***************************************************************************)

StarsOfCall == uh_inputs.repo_data.metrics.stars

\* C16: for a non-negative star count the star sub-score
\* min(100, max(0, 20 * (1 + (stars / 1000) ** 0.3))) is in [0,100], and no
\* smaller star count has a larger sub-score.
C16_StarScoreBoundedMonotone ==
    (uh_result # None /\ StarsOfCall >= 0) =>
        /\ StarScore(StarsOfCall) >= 0
        /\ StarScore(StarsOfCall) <= 100 * PowUnit
        /\ \A fewer \in StarCountSamples :
               fewer <= StarsOfCall => StarScore(fewer) <= StarScore(StarsOfCall)

\* The call for the first star count whose sub-score is capped at 100 has
\* returned: a repository with only stars has a community momentum of
\* 100 * 0.5 + 15 * 0.3 + 10 * 0.2 = 56.5, and one star less gives less than 100.
C16_Witness ==
    /\ uh_result # None
    /\ StarsOfCall = 101594
    /\ StarScore(StarsOfCall) = 100 * PowUnit
    /\ StarScore(StarsOfCall - 1) < 100 * PowUnit
    /\ uh_result.component_scores.community_momentum = 565

(***************************************************************************)
(* Properties of calculate_income_based (checked under SpecValuation); the *)
(* revenue is in thousandths of a dollar, the returned amounts in cents.   *)
(***************************************************************************)

GivenRevenue == Get(val_call, "annual_revenue", 0)

\* The revenue the valuation is computed from: stars * 100 dollars when the
\* given revenue is absent or not positive, else the given revenue.
RevenueUsed ==
    IF GivenRevenue <= 0 THEN StarsOf(val_call.inputs) * 100 * 1000 ELSE GivenRevenue

\* The returned record holds the revenue and revenue * 3 / 1.15, each
\* rounded to cents.
RevenueRule ==
    /\ val_result.estimated_annual_revenue \in RoundRatio(RevenueUsed, 10)
    /\ val_result.valuation \in RoundRatio(RevenueUsed * 3 * 10, 115)

Comparables == Get(val_call, "comparable_data", <<>>)

TotalStars == SumComparables(Comparables, "stars", 1)

\* No entry of the fetched listing is a code file.
NoCodeFiles == SelectSeq(cb_fetched.contents, IsCode) = <<>>

TestsWanted == Wanted(IncludeMetrics(cb_call), "tests")

\* C22: no ratio is computed over a zero count.  A call of
\* calculate_market_based always returns, and returns 0 when its comparables
\* have 0 stars in total; an analysis that ends does not end on a division
\* error, and when the listing has no code files its test-to-code ratio and
\* its coverage are 0.
C22_NoDivisionByZero ==
    /\ val_pc = "called" /\ val_call.method = "market_based"
         => ENABLED CalculateMarketBased
    /\ MethodReturned("market_based") /\ Comparables # <<>> /\ TotalStars = 0
         => val_result = 0
    /\ cb_pc = "done"
         => /\ Get(cb_result, "error", NoneStr)
                 \in {NoneStr, "Repository not found", "TypeError"}
            /\ Get(cb_result, "status", NoneStr) = "success" /\ TestsWanted
                 => "test_coverage" \in DOMAIN cb_result
            /\ Get(cb_result, "status", NoneStr) = "success" /\ TestsWanted /\ NoCodeFiles
                 => /\ cb_result.test_coverage.test_to_code_ratio = 0
                    /\ cb_result.test_coverage.overall_coverage = 0
                    /\ cb_result.test_coverage.unit_test_coverage = 0
                    /\ cb_result.test_coverage.integration_test_coverage = 0

\* A repository of 100 stars was valued at 0 against comparables worth 500
\* dollars that have no stars.
C22_Witness ==
    /\ MethodReturned("market_based")
    /\ Comparables # <<>>
    /\ SumComparables(Comparables, "value", 0) = 500
    /\ TotalStars = 0
    /\ StarsOf(val_call.inputs) = 100
    /\ val_call.inputs.market_multiplier = 5
    /\ val_result = 0

\* An analysis of a listing that holds files but no code file returned its
\* test coverage.
NoCodeFilesAnalyzed ==
    /\ cb_pc = "done"
    /\ Get(cb_result, "status", NoneStr) = "success"
    /\ TestsWanted
    /\ cb_fetched.contents # <<>>
    /\ NoCodeFiles
    /\ cb_result.test_coverage.test_to_code_ratio = 0

\* ------------------------------------------------------------------
\* Ranges of the component scores
\* ------------------------------------------------------------------

\* The seven dimensions that carry a weight in one of the two tables.
Dimensions == DOMAIN EnrichedWeights

\* C23: every dimension score of a returned result (community_momentum,
\* development_velocity, technology_quality, market_potential,
\* network_effects, code_quality, security_posture) is in [0,100], that is
\* 0..1000 tenths, with or without a successful codebase analysis.
C23_DimensionsInRange ==
    Returned =>
        \A key \in Dimensions : uh_result.component_scores[key] \in 0..1000

\* ------------------------------------------------------------------
\* The weights applied in the unicorn score
\* ------------------------------------------------------------------

\* The keys of the weight table that pass `if key in scores`, and the sum of
\* the weights of a set of keys, in hundredths.
AppliedKeys(scores, weights) == {key \in DOMAIN weights : key \in DOMAIN scores}

TotalWeight(keys, weights) == SumOver(keys, [key \in keys |-> 1], weights)

\* C24: in both branches every key of the active weight table is a key of
\* the score mapping, so the guard `if key in scores` drops no term: the
\* weights applied sum to 1.0 and the unicorn score is the rounded sum over
\* every key of the table.
C24_EveryWeightApplied ==
    Returned =>
        LET weights == Weights(uh_analysis)
            scores  == uh_result.component_scores
        IN  /\ DOMAIN weights \subseteq DOMAIN scores
            /\ AppliedKeys(scores, weights) = DOMAIN weights
            /\ TotalWeight(AppliedKeys(scores, weights), weights) = 100
            /\ uh_result.unicorn_score
                 \in RoundTenths(SumOver(DOMAIN weights, scores, weights), 100)

\* A call with a successful analysis returned a score to which each of the
\* seven weighted dimensions contributes.
C24_Witness ==
    /\ Returned
    /\ HasCodebaseAnalysis(uh_analysis)
    /\ Weights(uh_analysis) = EnrichedWeights
    /\ \A key \in DOMAIN EnrichedWeights : uh_result.component_scores[key] > 0
    /\ uh_result.unicorn_score > 0

\* ------------------------------------------------------------------
\* The valuation figures as functions of the unicorn score
\* ------------------------------------------------------------------

\* The three figures at a unicorn score of u tenths.
Figures(u) == <<Conservative(u), Realistic(u), Optimistic(u)>>

\* From each score in [0,100] to the next tenth no figure decreases, and
\* every figure is in [0, 1,000,000,000].
FiguresNonDecreasing ==
    \A u \in 0 .. 999 : \A i \in 1 .. 3 : Figures(u)[i] <= Figures(u + 1)[i]

FiguresWithinCap ==
    \A u \in 0 .. 1000 : \A i \in 1 .. 3 : Figures(u)[i] \in 0 .. max_valuation

\* C25: conservative, realistic and optimistic are non-decreasing in the
\* unicorn score u and lie in [0, 1,000,000,000] for every u in [0,100];
\* the figures of a returned result are those of its score, so they are in
\* that range and between the figures of the scores next to it.
C25_FiguresMonotoneWithinCap ==
    /\ FiguresNonDecreasing
    /\ FiguresWithinCap
    /\ Returned /\ uh_result.unicorn_score \in 1 .. 999 =>
         LET u      == uh_result.unicorn_score
             ranges == uh_result.speculative_valuation_ranges
             result == <<ranges.conservative, ranges.realistic, ranges.optimistic>>
         IN  /\ result = Figures(u)
             /\ \A i \in 1 .. 3 : /\ result[i] \in 0 .. max_valuation
                                  /\ Figures(u - 1)[i] <= result[i]
                                  /\ result[i] <= Figures(u + 1)[i]

\* A result with a score between 30 and 40 was returned; each of its figures
\* is positive and strictly below the figure at a score of 100.
C25_Witness ==
    /\ Returned
    /\ uh_result.unicorn_score \in 300 .. 400
    /\ uh_result.speculative_valuation_ranges.conservative \in 1 .. Conservative(1000) - 1
    /\ uh_result.speculative_valuation_ranges.realistic \in 1 .. Realistic(1000) - 1
    /\ uh_result.speculative_valuation_ranges.optimistic \in 1 .. Optimistic(1000) - 1

\* ------------------------------------------------------------------
\* Components that are pinned by their constant terms
\* ------------------------------------------------------------------

\* C26: for non-negative fork and watcher counts network_effects is exactly
\* 100 (1000 tenths) whatever the counts, and market_potential is never
\* below 60.
C26_NetworkEffectsConstant ==
    Returned =>
        /\ uh_result.component_scores.network_effects = 1000
        /\ uh_result.component_scores.market_potential >= 600

\* A repository without stars, forks, watchers or contributors was scored:
\* its network_effects is 100 and its market_potential is 60.
C26_Witness ==
    /\ Returned
    /\ uh_inputs.repo_data.metrics = [stars |-> 0, forks |-> 0, watchers |-> 0]
    /\ uh_inputs.repo_data.development.contributors = 0
    /\ uh_result.component_scores.network_effects = 1000
    /\ uh_result.component_scores.market_potential = 600

\* ------------------------------------------------------------------
\* The lowest score of the baseline branch
\* ------------------------------------------------------------------

\* C27: without a usable codebase analysis, and with non-negative counts and
\* scores, the unicorn score is never below 37.9 (379 tenths), so the tier
\* of such a result is never seed_stage.
C27_BaselineFloor ==
    (Returned /\ NoUsableAnalysis) =>
        /\ uh_result.unicorn_score >= 379
        /\ uh_result.tier # "seed_stage"

\* The floor is reached: a repository with no stars, forks, watchers,
\* contributors or commits and with repository scores of 0 was scored 37.9
\* without an analysis, in the early_stage tier.
C27_Witness ==
    /\ Returned
    /\ uh_analysis = None
    /\ uh_inputs.repo_data.metrics = [stars |-> 0, forks |-> 0, watchers |-> 0]
    /\ uh_inputs.repo_data.scores
         = [overall_score |-> 0, health_score |-> 0, activity_score |-> 0]
    /\ uh_result.component_scores.technology_quality = 0
    /\ uh_result.unicorn_score = 379
    /\ uh_result.tier = "early_stage"

\* ------------------------------------------------------------------
\* The cap on the valuation figures
\* ------------------------------------------------------------------

\* The figures before min(max_valuation, ...) at a score of u tenths.
Uncapped(u) == <<Max(0, ConservativeCurve[u + 1]),
                 Max(0, RealisticCurve[u + 1]),
                 Max(0, OptimisticCurve[u + 1])>>

Scales == <<5000000, 10000000, 20000000>>

UncappedWithinScales ==
    \A u \in 0 .. 1000 : \A i \in 1 .. 3 : Uncapped(u)[i] <= Scales[i]

AgentAnalyzed ==
    /\ RequestedTool = "agent_executor"
    /\ Len(inv_calls) >= 1
    /\ inv_calls[1].outcome # Raised
    /\ "error" \notin DOMAIN inv_calls[1].outcome

AgentQuery == LowerQuery(Given("input", <<>>))

\* The outcome the query selects.
OutcomeKeys == {"unicorn_hunter", "valuation", "suggestion"}

SelectedOutcome ==
    IF Contains(AgentQuery, "unicorn") THEN "unicorn_hunter"
    ELSE IF \E keyword \in {"valuation", "value", "worth", "price"} :
              Contains(AgentQuery, keyword)
         THEN "valuation"
    ELSE "suggestion"

\* C29: after a successful repository analysis agent_executor's result
\* holds exactly one of the keys unicorn_hunter, valuation and suggestion:
\* unicorn_hunter if the query contains "unicorn" (also when it contains a
\* valuation keyword), else valuation if it contains valuation, value, worth
\* or price, else suggestion.
C29_OneOutcomeByPriority ==
    (inv_pc = "done" /\ AgentAnalyzed) =>
        /\ "isError" \in DOMAIN inv_response
        /\ inv_response.isError = FALSE
        /\ OutcomeKeys \cap DOMAIN inv_response.content.text = {SelectedOutcome}

\* A query with both "unicorn" and "valuation" was answered with a
\* unicorn_hunter result and no valuation.
C29_Witness ==
    /\ inv_pc = "done"
    /\ AgentAnalyzed
    /\ Contains(AgentQuery, "unicorn")
    /\ Contains(AgentQuery, "valuation")
    /\ "unicorn_hunter" \in DOMAIN inv_response.content.text
    /\ "valuation" \notin DOMAIN inv_response.content.text
    /\ inv_response.content.text.unicorn_hunter.method = "unicorn_hunter"

\* The other two outcomes were produced as well.
ValuationOutcomeReached ==
    /\ inv_pc = "done"
    /\ AgentAnalyzed
    /\ SelectedOutcome = "valuation"
    /\ inv_response.content.text.valuation.method = "cost_based"

SuggestionOutcomeReached ==
    /\ inv_pc = "done"
    /\ AgentAnalyzed
    /\ Contains(AgentQuery, "cost")
    /\ SelectedOutcome = "suggestion"
    /\ "suggestion" \in DOMAIN inv_response.content.text

\* ------------------------------------------------------------------
\* How invoke_tool reports failures
\* ------------------------------------------------------------------

\* The call ended with a returned response whose isError is `isError`.
Responded(isError) ==
    /\ "isError" \in DOMAIN inv_response
    /\ inv_response.isError = isError

\* The request names a tool the server has and carries arguments that are
\* not null.
HandlerEntered ==
    /\ RequestedTool \in ToolNames
    /\ Get(inv_request, "arguments", EmptyDict) # None

\* A collaborator called directly by the tool raised.
CollaboratorRaised ==
    /\ RequestedTool \in {"analyze_github_repository", "get_package_stats",
                          "analyze_codebase"}
    /\ inv_calls # <<>>
    /\ inv_calls[Len(inv_calls)].outcome = Raised

\* C30: a call of invoke_tool ends with a response or with an HTTP error,
\* never with another exception.  Without a tool name the error is HTTP 400,
\* with an unknown one HTTP 404; an HTTP error raised in a handler (a missing
\* argument, an unknown valuation method) leaves the call as it is; any other
\* exception (null arguments, a collaborator that raises) becomes a response
\* with isError true.
C30_FailuresReported ==
    inv_pc = "done" =>
        /\ HttpError(400) \/ HttpError(404) \/ Responded(TRUE) \/ Responded(FALSE)
        /\ RequestedTool \in {NoneStr, ""} => HttpError(400)
        /\ RequestedTool \notin ToolNames \cup {NoneStr, ""} => HttpError(404)
        /\ HttpError(404) => RequestedTool \notin ToolNames
        /\ HandlerEntered /\ MissingRequiredArgument => HttpError(400)
        /\ HandlerEntered /\ RequestedTool = "calculate_valuation"
             /\ Given("repo_data", None) \notin {None, EmptyDict}
             /\ Given("method", "scorecard") \notin ValuationMethods
             => HttpError(400)
        /\ RequestedTool \in ToolNames /\ ~HandlerEntered => Responded(TRUE)
        /\ CollaboratorRaised => Responded(TRUE)

\* The codebase estimator raised under analyze_codebase and the call
\* returned a response with isError true.
C30_Witness ==
    /\ inv_pc = "done"
    /\ RequestedTool = "analyze_codebase"
    /\ CollaboratorRaised
    /\ Responded(TRUE)
    /\ inv_response.content.text = <<"Error: ", "Exception">>

\* The other failures were reported too: 404, 400 without a tool, 400 from a
\* handler, and null arguments.
UnknownToolReported == inv_pc = "done" /\ RequestedTool = "no_such_tool" /\ HttpError(404)

MissingToolReported == inv_pc = "done" /\ "tool" \notin DOMAIN inv_request /\ HttpError(400)

HandlerErrorReported ==
    /\ inv_pc = "done"
    /\ HandlerEntered
    /\ RequestedTool = "calculate_valuation"
    /\ Given("method", "scorecard") = "no_such_method"
    /\ HttpError(400)

NullArgumentsReported ==
    /\ inv_pc = "done"
    /\ RequestedTool \in ToolNames
    /\ ~HandlerEntered
    /\ Responded(TRUE)

====
